---- MODULE Spec2Model ----
(***************************************************************************)
(* Leaderboard bot: batched counter writes (database/manager.py), the      *)
(* TTL/LRU result cache (services/cache.py) and the leaderboard service    *)
(* (services/leaderboard.py), as state machines over one set of variables. *)
(* Every specification below starts from the state after construction and  *)
(* runs the handlers of one part of the program.                           *)
(***************************************************************************)
EXTENDS Integers, Sequences, FiniteSets, TLC

(* ------------------------------------------------------------------ *)
(* Bounds of the model                                                 *)
(* ------------------------------------------------------------------ *)
MaxTime == 4
MaxCalls == 4
MaxQueue == 3
(* the operations waiting in the specification that fills a batch *)
MaxPending == 101
max_size == 2
RankUsers == 11
MaxLbCalls == 1
MaxResetEvents == 2
MaxViews == 3
pool_size == 2

(* Identifiers of the model: Discord ids are opaque integers. guild_id 0 is
   what main.py passes for a direct message. *)
Users == {1, 2}
Guilds == {1}
Channels == {1}
(* the channels of the specification that posts in two channels of a guild *)
MsgChannels == {1, 2}
Keys == Users \X Guilds

(* ------------------------------------------------------------------ *)
(* Program constants                                                   *)
(* ------------------------------------------------------------------ *)
(* config.py reads both from the environment; 2 and 2 are the configured
   values of the model (the defaults are 50 and 60). *)
RATE_LIMIT_MESSAGES == 2
RATE_LIMIT_WINDOW == 2
(* len(operations) < 100 in _process_batch_operations *)
BatchLimit == 100
(* limit = min(limit, 10) in LeaderboardService.get_*_leaderboard *)
TopLimit == 10
(* CacheService(max_size, default_ttl): main.py passes CACHE_SIZE and CACHE_TTL
   (1000 entries and 300 s by default); the voice leaderboard caches with
   ttl=60. The model keeps default_ttl > the voice ttl. *)
default_ttl == 2
VOICE_TTL == 1
ENABLE_MESSAGE_TRACKING == TRUE
ENABLE_VOICE_TRACKING == TRUE

NULL == -1
NoRow == [count |-> 0, channel_id |-> NULL]
NoVoice == [total_time |-> NULL, join_time |-> NULL]

VARIABLES
    now,                 \* time.time(), in whole seconds
    messages,            \* table messages: (user_id, guild_id) -> row or NoRow
    voice,               \* table voice: (user_id, guild_id) -> row or NoVoice
    last_reset,          \* settings['last_leaderboard_reset'] or NULL
    user_cache,          \* table user_cache: the user ids with a cached name
    batch_queue,         \* DatabaseManager._batch_queue
    operations,          \* _process_batch_operations: the local list operations
    batch_task,          \* "running" | "cancelled": the background batch worker
    rate_limit_tracker,  \* LeaderboardService._rate_limit_tracker
    cache,               \* CacheService._cache, in OrderedDict order
    inc_calls,           \* history: calls of increment_message_count per key
    msg_events,          \* history: track_message events per key
    msg_rejected,        \* history: track_message events the rate limiter refused
    chan_calls,          \* history: calls of increment_message_count per key and channel
    in_voice,            \* environment: whether the member is in a voice channel
    voice_pc,            \* handle_voice_state_update per key: "idle" | "leave" | "switch"
    leave_time,          \* update_voice_leave: the local current_time
    first_session,       \* history: the times of a key's first join and leave
    lb,                  \* the last leaderboard query: its arguments and its rows
    watched,             \* history: the cache key whose calls are recorded
    cache_op,            \* history: the outcome of a get(watched) made at this instant
    set_log,             \* history: the last set(watched, value, ttl) and its time
    since_set,           \* history: what happened to the watched key since that set
    use_order,           \* history: the keys used (set, found by get, refreshed), last use last
    evict_log,           \* history: the entries the last set evicted
    lb_call,             \* the get_*_leaderboard calls in flight: position and locals
    calls_at_reset,      \* history: inc_calls at the last DELETE FROM messages
    close_pc,            \* DatabaseManager.close: "open" | "drain" | "execute" | "closed"
    remaining_ops,       \* DatabaseManager.close: the local list remaining_ops
    calls_at_close,      \* history: inc_calls when close() was called
    conn_tx,             \* the pooled connection left with an open transaction: <<>> or <<its tables>>
    failed_calls,        \* history: the increments of the batches whose execution raised, per key
    name_call,           \* the last _get_username call: what the lookups gave and its result
    view_setting,        \* table settings: the '<type>_leaderboard_id_<guild>' rows ("" for no row)
    views,               \* environment: the ids of the leaderboard messages that exist
    sent_log,            \* environment: the setting key of each message sent; its index is the id
    cycle,               \* the update_leaderboard_message calls in flight: position and locals
    pool,                \* ConnectionPool._pool: the queue of the connections not in use
    pool_call,           \* the get_connection calls: position and the connection held
    event_log,           \* the last event handler call in which something raised, and how it ended
    read_log,            \* history: the last get_message_leaderboard call run as a whole
    switch_log,          \* history: per key, the last switch that closed an open session
    old_failed,          \* history: a fetch or delete of an old view has failed
    accept_log,          \* history: per tracker key, the times of the events _check_rate_limit accepted
    initialized,         \* ConnectionPool._initialized
    health,              \* HealthChecker: checks, results, and what the last calls returned
    limiter,             \* a RateLimiter of rate_limit: calls per key, and the history of the wrapper's calls
    command,             \* one 'leaderboard messages' / 'leaderboard voice' command
    retry_call           \* one call of a function wrapped by retry: the wrapper's locals and its outcome

dbVars == <<messages, voice, last_reset, user_cache>>
queueVars == <<batch_queue, operations, batch_task>>
msgHist == <<inc_calls, msg_events, msg_rejected, chan_calls>>
voiceVars == <<in_voice, voice_pc, leave_time, first_session>>
(* what belongs to the handlers in flight and to the history of a run *)
lruHist == <<use_order, evict_log>>
cacheHist == <<watched, cache_op, set_log, since_set, lruHist>>
callVars == <<lb_call, calls_at_reset>>
closeVars == <<close_pc, remaining_ops, calls_at_close>>
failVars == <<conn_tx, failed_calls>>
viewVars == <<views, sent_log, cycle>>
(* restVars: the variables of the parts modelled last, which all earlier actions leave alone *)
(* utilVars: the variables of the utilities modelled on their own *)
toolVars == <<retry_call, health, limiter, command>>
utilVars == <<accept_log, initialized, toolVars>>
restVars == <<pool, pool_call, event_log, read_log, switch_log, old_failed, utilVars>>
procVars == <<callVars, closeVars, failVars, name_call, view_setting, viewVars, restVars>>
histVars == <<msgHist, voiceVars, lb, cacheHist, procVars>>
vars == <<now, dbVars, queueVars, rate_limit_tracker, cache, histVars>>
(* every variable of the bot itself: what a utility modelled on its own leaves alone *)
botVars == <<now, dbVars, queueVars, rate_limit_tracker, cache, msgHist, voiceVars, lb, cacheHist,
             callVars, closeVars, failVars, name_call, view_setting, viewVars, pool, pool_call,
             event_log, read_log, switch_log, old_failed, accept_log, initialized>>

(* ------------------------------------------------------------------ *)
(* SQL statements of the batch queue                                   *)
(* ------------------------------------------------------------------ *)
(* INSERT OR REPLACE INTO messages ... COALESCE((SELECT count ...), 0) + 1 *)
IncrementRowChannelMutant(row, channel) ==
    [count |-> IF row.channel_id = channel THEN row.count + 1 ELSE 1, channel_id |-> channel]
IncrementRowMutant(row, channel) == [count |-> 1, channel_id |-> channel]
IncrementRow(row, channel) == [count |-> row.count + 1, channel_id |-> channel]

(* INSERT OR REPLACE INTO voice ... COALESCE((SELECT total_time ...), 0), ? *)
JoinRowMutant(row, t) == [total_time |-> 0, join_time |-> t]
JoinRow(row, t) ==
    [total_time |-> IF row = NoVoice THEN 0 ELSE row.total_time, join_time |-> t]

(* UPDATE voice SET total_time = ?, join_time = NULL WHERE user_id = ? AND guild_id = ? *)
LeaveRow(row, new_total) ==
    IF row = NoVoice THEN NoVoice ELSE [total_time |-> new_total, join_time |-> NULL]

(* One statement of executemany applied to the tables db = [messages, voice]. *)
ApplyOpMutant(db, op) ==
    CASE op.query = "increment" ->
            [db EXCEPT !.messages[op.key] = IncrementRow(@, op.channel)]
      [] op.query = "join" ->
            [db EXCEPT !.voice[op.key] = JoinRow(@, op.t), !.messages[op.key] = NoRow]
      [] op.query = "leave" ->
            [db EXCEPT !.voice[op.key] = LeaveRow(@, op.new_total)]
      [] OTHER -> db
ApplyOp(db, op) ==
    CASE op.query = "increment" ->
            [db EXCEPT !.messages[op.key] = IncrementRow(@, op.channel)]
      [] op.query = "join" ->
            [db EXCEPT !.voice[op.key] = JoinRow(@, op.t)]
      [] op.query = "leave" ->
            [db EXCEPT !.voice[op.key] = LeaveRow(@, op.new_total)]
      [] OTHER -> db

(* The loops over a batch carry a value along: the value after every element
   of ops has been applied, in the order of ops.  The sequence is split in
   halves; the value the first half leaves (the one element of the inner set)
   is the value the second half starts from. *)
FirstHalf(ops) == SubSeq(ops, 1, Len(ops) \div 2)
SecondHalf(ops) == SubSeq(ops, (Len(ops) \div 2) + 1, Len(ops))

RECURSIVE ApplyAll(_, _)
ApplyAll(db, ops) ==
    IF ops = <<>> THEN db
    ELSE IF Len(ops) = 1 THEN ApplyOp(db, ops[1])
    ELSE CHOOSE after \in
            {ApplyAll(mid, second) :
                mid \in {ApplyAll(db, first) : first \in {FirstHalf(ops)}},
                second \in {SecondHalf(ops)}} : TRUE

(* grouped_ops: a dict keyed by (query, operation_type); its keys keep the
   order of first insertion and each value the params in queue order. *)
AddQuery(qs, op) ==
    IF \E i \in 1..Len(qs) : qs[i] = op.query THEN qs ELSE Append(qs, op.query)

RECURSIVE QueryOrderFrom(_, _)
QueryOrderFrom(qs, ops) ==
    IF ops = <<>> THEN qs
    ELSE IF Len(ops) = 1 THEN AddQuery(qs, ops[1])
    ELSE CHOOSE after \in
            {QueryOrderFrom(mid, second) :
                mid \in {QueryOrderFrom(qs, first) : first \in {FirstHalf(ops)}},
                second \in {SecondHalf(ops)}} : TRUE

QueryOrder(ops) == QueryOrderFrom(<<>>, ops)

OpsOfQuery(ops, q) == SelectSeq(ops, LAMBDA op : op.query = q)

RECURSIVE ConcatGroups(_, _)
ConcatGroups(ops, qs) ==
    IF qs = <<>> THEN <<>>
    ELSE OpsOfQuery(ops, Head(qs)) \o ConcatGroups(ops, Tail(qs))

GroupedOpsMutant(ops) == ops
GroupedOps(ops) == ConcatGroups(ops, QueryOrder(ops))

(* _execute_batch_operations: group, executemany per group, one commit. *)
ExecuteBatchMutant(db, ops) == ApplyOp(db, Head(GroupedOps(ops)))
ExecuteBatch(db, ops) == ApplyAll(db, GroupedOps(ops))

(* INSERT OR REPLACE INTO settings (key, value, updated_at): the statements of
   set_setting among ops, applied in their order to the rows of the table *)
SetRowMutant(settings, op) ==
    IF op.query = "set_setting" /\ settings[op.key] = ""
    THEN [settings EXCEPT ![op.key] = op.value] ELSE settings
SetRow(settings, op) ==
    IF op.query = "set_setting" THEN [settings EXCEPT ![op.key] = op.value] ELSE settings

RECURSIVE SettingsAfter(_, _)
SettingsAfter(settings, ops) ==
    IF ops = <<>> THEN settings
    ELSE IF Len(ops) = 1 THEN SetRow(settings, ops[1])
    ELSE CHOOSE after \in
            {SettingsAfter(mid, second) :
                mid \in {SettingsAfter(settings, first) : first \in {FirstHalf(ops)}},
                second \in {SecondHalf(ops)}} : TRUE

(* ------------------------------------------------------------------ *)
(* CacheService: _cache is an OrderedDict, modelled as the sequence of *)
(* its entries [key, value, created_at, ttl], oldest first             *)
(* ------------------------------------------------------------------ *)
(* CacheEntry.is_expired at time t *)
IsExpiredMutant(entry, t) == entry.ttl # NULL /\ t > entry.created_at
IsExpired(entry, t) == entry.ttl # NULL /\ t > entry.created_at + entry.ttl

CacheHas(c, key) == \E i \in 1..Len(c) : c[i].key = key
CacheEntryOf(c, key) == c[CHOOSE i \in 1..Len(c) : c[i].key = key]
CacheWithout(c, key) == SelectSeq(c, LAMBDA e : e.key # key)

(* while len(self._cache) > self.max_size: del the first key *)
EvictIfNeededMutant(c) == c
RECURSIVE EvictIfNeeded(_)
EvictIfNeeded(c) == IF Len(c) > max_size THEN EvictIfNeeded(Tail(c)) ELSE c

(* CacheService.get: the value returned ... *)
CacheGetResult(c, key, t) ==
    IF CacheHas(c, key) /\ ~IsExpired(CacheEntryOf(c, key), t)
    THEN [found |-> TRUE, value |-> CacheEntryOf(c, key).value]
    ELSE [found |-> FALSE, value |-> NULL]

(* ... and the cache it leaves: an expired entry deleted, a hit moved to the end *)
CacheAfterGetMutant(c, key, t) ==
    IF CacheHas(c, key) /\ IsExpired(CacheEntryOf(c, key), t) THEN CacheWithout(c, key) ELSE c
CacheAfterGet(c, key, t) ==
    IF ~CacheHas(c, key) THEN c
    ELSE IF IsExpired(CacheEntryOf(c, key), t) THEN CacheWithout(c, key)
    ELSE Append(CacheWithout(c, key), CacheEntryOf(c, key))

(* CacheService.set *)
CacheSet(c, key, value, ttl, t) ==
    LET entry == [key |-> key, value |-> value, created_at |-> t,
                  ttl |-> IF ttl = NULL THEN default_ttl ELSE ttl]
    IN EvictIfNeeded(Append(CacheWithout(c, key), entry))

(* CacheService.delete *)
CacheDelete(c, key) == CacheWithout(c, key)

RECURSIVE CacheDeleteAll(_, _)
CacheDeleteAll(c, keys) ==
    IF keys = <<>> THEN c ELSE CacheDeleteAll(CacheDelete(c, Head(keys)), Tail(keys))

(* CacheService.clear *)
CacheClear(c) == <<>>

(* CacheService.has_key: an expired entry is deleted *)
CacheHasKeyResult(c, key, t) == CacheHas(c, key) /\ ~IsExpired(CacheEntryOf(c, key), t)

CacheAfterHasKey(c, key, t) ==
    IF CacheHas(c, key) /\ IsExpired(CacheEntryOf(c, key), t) THEN CacheWithout(c, key) ELSE c

(* CacheService.refresh: an expired entry is deleted; a live one gets a new
   created_at and ttl and moves to the end *)
CacheRefreshResult(c, key, t) == CacheHasKeyResult(c, key, t)

CacheAfterRefresh(c, key, ttl, t) ==
    IF ~CacheHas(c, key) THEN c
    ELSE IF IsExpired(CacheEntryOf(c, key), t) THEN CacheWithout(c, key)
    ELSE Append(CacheWithout(c, key),
                [CacheEntryOf(c, key) EXCEPT !.created_at = t,
                                             !.ttl = IF ttl = NULL THEN default_ttl ELSE ttl])

(* CacheService.cleanup_expired *)
CacheCleanupExpired(c, t) == SelectSeq(c, LAMBDA e : ~IsExpired(e, t))

CacheKeySet(c) == {c[i].key : i \in 1..Len(c)}

(* ------------------------------------------------------------------ *)
(* Initial state: after DatabaseManager.initialize and the services'   *)
(* constructors                                                        *)
(* ------------------------------------------------------------------ *)
(* The keys, values and ttls of the cache specification: one key more than
   the cache holds. The calls are symmetric in the key: the history variables
   follow one key, key_1, which is set to either value with either ttl, the
   others to "x" with the default ttl. *)
CacheKeys == {"key_" \o ToString(i) : i \in 1..(max_size + 1)}
CacheValues == {"x", "y"}
CacheTtls == {NULL, 0}
CacheValuesOf(key) == IF key = "key_1" THEN CacheValues ELSE {"x"}
CacheTtlsOf(key) == IF key = "key_1" THEN CacheTtls ELSE {NULL}
NoCacheOp == [op |-> "none", found |-> FALSE, value |-> ""]
NoSet == [value |-> "", at |-> 0, ttl |-> NULL]

NoQuery == [api |-> "none", guild_id |-> 0, limit |-> 0, rows |-> <<>>]

(* The leaderboard requests in flight: the background update tasks and the
   commands call get_message_leaderboard and get_voice_leaderboard as
   coroutines of one event loop. *)
Callers == {1, 2}
NoCall == [pc |-> "idle", kind |-> "none", guild_id |-> 0, raw_data |-> <<>>,
           current_time |-> NULL, result |-> <<>>, stale |-> FALSE, calls |-> 0,
           error |-> "none"]

(* no handler call has failed so far; queued: the operations the call queued *)
NoEvent == [handler |-> "none", failed_at |-> "none", outcome |-> "none", queued |-> 0]

(* at: the time of the switch; total: the total_time its UPDATE carries *)
NoSwitch == [at |-> NULL, total |-> 0]

(* hit: the call returned the cached entry; entry_events: the increments
   accepted when the cached entry was computed; events: those accepted when
   the call returned *)
NoRead == [hit |-> FALSE, entry_events |-> 0, events |-> 0]

(* the coroutines that use get_connection, one more than the pool has
   connections; conn: the connection the call holds, 0 for none *)
PoolCallers == 1..(pool_size + 1)
NoPoolCall == [pc |-> "idle", conn |-> 0]

(* f"{leaderboard_type}_leaderboard_id_{guild_id or 'global'}" *)
SettingKey(leaderboard_type, guild_id) ==
    leaderboard_type \o "_leaderboard_id_"
        \o (IF guild_id = 0 THEN "global" ELSE ToString(guild_id))
SettingKeys == {SettingKey(t, g) : t \in {"message", "voice"}, g \in Guilds}

(* an update_leaderboard_message call: old is what became of the old message
   ("none", "deleted", "not_found", "forbidden", "error"), created the id of
   the message it sent *)
NoCycle == [pc |-> "idle", key |-> "", message_id |-> "", old |-> "none", created |-> 0]

(* a row of user_cache as get_cached_user returns it, and no row *)
NoCached == [username |-> "", discriminator |-> "none"]
NoNameCall ==
    [user_id |-> 0, bot |-> FALSE, user |-> "", fetched |-> "", member |-> "",
     cached |-> NoCached, db_error |-> FALSE, result |-> ""]

(* no voice event of the key so far; more: an event other than one accepted
   join followed by one accepted leave *)
NoSession == [join_at |-> NULL, leave_at |-> NULL, more |-> FALSE]

(* everything but the clock and the two counter tables *)
(* retry: no call of the wrapper is in progress *)
NoRetry == [pc |-> "idle", max_attempts |-> 0, backoff |-> 1, attempt |-> 0,
            current_delay |-> 0, log |-> <<>>, slept |-> 0, result |-> NULL]

(* HealthChecker: the names a check is run under; no call of run_check has returned *)
CheckNames == {"memory", "cpu"}
NoCheckRun == [name |-> "none", registered |-> FALSE, behaviour |-> "none",
               outcome |-> "none", status |-> "none"]

(* rate_limit: the keys key_func or str(args[0]) gives; no call of the wrapper yet *)
LimiterKeys == {"a", "b"}
NoWrapperCall == [key |-> "none", result |-> "none", turn |-> 0]

(* no leaderboard command has been invoked *)
NoCommand == [pc |-> "idle", kind |-> "none", given |-> FALSE, limit |-> 0,
              reply |-> "none", lines |-> 0]

InitRest ==
    /\ last_reset = NULL
    /\ user_cache = {}
    /\ batch_queue = <<>>
    /\ operations = <<>>
    /\ batch_task = "running"
    /\ rate_limit_tracker = [u \in Users, kind \in {"message", "voice"} |-> <<>>]
    /\ cache = <<>>
    /\ inc_calls = [k \in Keys |-> 0]
    /\ msg_events = [k \in Keys |-> 0]
    /\ msg_rejected = [k \in Keys |-> 0]
    /\ chan_calls = [k \in Keys |-> [c \in MsgChannels |-> 0]]
    /\ in_voice = [k \in Keys |-> FALSE]
    /\ voice_pc = [k \in Keys |-> "idle"]
    /\ leave_time = [k \in Keys |-> NULL]
    /\ first_session = [k \in Keys |-> NoSession]
    /\ lb = NoQuery
    /\ watched = "key_1"
    /\ cache_op = NoCacheOp
    /\ set_log = NoSet
    /\ since_set = "none"
    /\ use_order = <<>>
    /\ evict_log = <<>>
    /\ lb_call = [c \in Callers |-> NoCall]
    /\ calls_at_reset = [k \in Keys |-> 0]
    /\ close_pc = "open"
    /\ remaining_ops = <<>>
    /\ calls_at_close = [k \in Keys |-> 0]
    /\ conn_tx = <<>>
    /\ failed_calls = [k \in Keys |-> 0]
    /\ name_call = NoNameCall
    /\ view_setting = [key \in SettingKeys |-> ""]
    /\ views = {}
    /\ sent_log = <<>>
    /\ cycle = [c \in Callers |-> NoCycle]
    /\ pool = [i \in 1..pool_size |-> i]
    /\ pool_call = [c \in PoolCallers |-> NoPoolCall]
    /\ event_log = NoEvent
    /\ read_log = NoRead
    /\ switch_log = [k \in Keys |-> NoSwitch]
    /\ old_failed = FALSE
    /\ accept_log = [u \in Users, kind \in {"message", "voice"} |-> <<>>]
    /\ initialized = TRUE
    /\ retry_call = NoRetry
    /\ limiter = [calls |-> [k \in LimiterKeys |-> <<>>],
                  executed |-> [k \in LimiterKeys |-> <<>>],
                  last |-> NoWrapperCall]
    /\ command = NoCommand
    /\ health = [checks |-> {}, results |-> [n \in CheckNames |-> "none"],
                 last |-> NoCheckRun, overall |-> "none"]

Init ==
    /\ now = 1
    /\ messages = [k \in Keys |-> NoRow]
    /\ voice = [k \in Keys |-> NoVoice]
    /\ InitRest

(* ------------------------------------------------------------------ *)
(* The clock                                                           *)
(* ------------------------------------------------------------------ *)
Tick ==
    /\ now < MaxTime
    /\ now' = now + 1
    /\ cache_op' = NoCacheOp
    /\ UNCHANGED <<dbVars, queueVars, rate_limit_tracker, cache, msgHist, voiceVars, lb, procVars,
                   watched, set_log, since_set, lruHist>>

(* ------------------------------------------------------------------ *)
(* The background batch worker                                         *)
(* ------------------------------------------------------------------ *)
(* while time.time() < deadline and len(operations) < 100 *)
BatchOpenMutant(ops) == Len(ops) <= BatchLimit
BatchOpen(ops) == Len(ops) < BatchLimit

(* operation = await wait_for(self._batch_queue.get(), 1.0); append *)
WorkerTake ==
    /\ batch_task = "running"
    /\ batch_queue # <<>>
    /\ BatchOpen(operations)
    /\ operations' = Append(operations, Head(batch_queue))
    /\ batch_queue' = Tail(batch_queue)
    /\ UNCHANGED <<now, dbVars, batch_task, rate_limit_tracker, cache, histVars>>

(* the collecting loop ends (timeout, deadline or size) with operations to run *)
WorkerFlush ==
    /\ batch_task = "running"
    /\ operations # <<>>
    /\ LET db == ExecuteBatch([messages |-> messages, voice |-> voice], operations)
       IN /\ messages' = db.messages
          /\ voice' = db.voice
    /\ view_setting' = SettingsAfter(view_setting, GroupedOps(operations))
    /\ operations' = <<>>
    /\ UNCHANGED <<now, last_reset, user_cache, batch_queue, batch_task, rate_limit_tracker,
                   cache, msgHist, voiceVars, lb, cacheHist, callVars, closeVars, failVars,
                   name_call, restVars, viewVars>>

Flushed == batch_queue = <<>> /\ operations = <<>>

RECURSIVE SumOver(_, _)
SumOver(f, S) ==
    IF S = {} THEN 0
    ELSE LET x == CHOOSE y \in S : TRUE IN f[x] + SumOver(f, S \ {x})

(* ------------------------------------------------------------------ *)
(* DatabaseManager.increment_message_count                             *)
(* ------------------------------------------------------------------ *)
IncrementOp(u, g, c) ==
    [query |-> "increment", key |-> <<u, g>>, channel |-> c]

QueueRoom == Len(batch_queue) + Len(operations) < MaxQueue

IncrementMessageCount(u, g, c) ==
    /\ QueueRoom
    /\ inc_calls[<<u, g>>] < MaxCalls
    /\ batch_queue' = Append(batch_queue, IncrementOp(u, g, c))
    /\ inc_calls' = [inc_calls EXCEPT ![<<u, g>>] = @ + 1]
    /\ chan_calls' = [chan_calls EXCEPT ![<<u, g>>][c] = @ + 1]
    /\ UNCHANGED <<now, dbVars, operations, batch_task, rate_limit_tracker, cache,
                   msg_events, msg_rejected, voiceVars, lb, procVars, cacheHist>>

(* ------------------------------------------------------------------ *)
(* LeaderboardService.track_message                                    *)
(* ------------------------------------------------------------------ *)
(* _check_rate_limit: the tracker list with the old entries cleaned ... *)
CleanOldMutant(times, t) == SelectSeq(times, LAMBDA x : x > t - RATE_LIMIT_WINDOW + 1)
CleanOld(times, t) == SelectSeq(times, LAMBDA x : x > t - RATE_LIMIT_WINDOW)

(* ... whether the request passes ... *)
RateLimitOkMutant(times, t) == Len(CleanOld(times, t)) < RATE_LIMIT_MESSAGES - 1
RateLimitOk(times, t) == Len(CleanOld(times, t)) < RATE_LIMIT_MESSAGES

(* ... and the tracker list it leaves *)
RateLimitAfter(times, t) ==
    IF RateLimitOk(times, t) THEN Append(CleanOld(times, t), t) ELSE CleanOld(times, t)

(* the cache keys track_message deletes *)
MessageCacheKeys(u, g) ==
    << "message_leaderboard_" \o ToString(g),
       "message_leaderboard_global",
       "user_message_stats_" \o ToString(u) \o "_" \o ToString(g) >>

(* _cache_user_if_needed: bot.get_user(user_id) finds the user or not *)
CacheUserIfNeeded(uc, u, bot_has_user) ==
    IF u \notin uc /\ bot_has_user THEN uc \cup {u} ELSE uc

TrackMessage(u, g, c) ==
    /\ ENABLE_MESSAGE_TRACKING
    /\ QueueRoom
    /\ msg_events[<<u, g>>] < MaxCalls
    /\ msg_events' = [msg_events EXCEPT ![<<u, g>>] = @ + 1]
    /\ rate_limit_tracker' = [rate_limit_tracker EXCEPT ![u, "message"] =
                                 RateLimitAfter(@, now)]
    /\ IF RateLimitOk(rate_limit_tracker[u, "message"], now)
       THEN /\ batch_queue' = Append(batch_queue, IncrementOp(u, g, c))
            /\ inc_calls' = [inc_calls EXCEPT ![<<u, g>>] = @ + 1]
            /\ chan_calls' = [chan_calls EXCEPT ![<<u, g>>][c] = @ + 1]
            /\ \E bot_has_user \in BOOLEAN :
                  user_cache' = CacheUserIfNeeded(user_cache, u, bot_has_user)
            /\ cache' = CacheDeleteAll(cache, MessageCacheKeys(u, g))
            /\ UNCHANGED msg_rejected
       ELSE /\ msg_rejected' = [msg_rejected EXCEPT ![<<u, g>>] = @ + 1]
            /\ UNCHANGED <<batch_queue, inc_calls, chan_calls, user_cache, cache>>
    /\ UNCHANGED <<now, messages, voice, last_reset, operations, batch_task, voiceVars, lb, procVars, cacheHist>>

(* _check_rate_limit called on its own for the tracker key of u and kind *)
CheckRateLimit(u, kind) ==
    /\ rate_limit_tracker' = [rate_limit_tracker EXCEPT ![u, kind] = RateLimitAfter(@, now)]
    /\ accept_log' = [accept_log EXCEPT ![u, kind] =
          IF RateLimitOk(rate_limit_tracker[u, kind], now) THEN Append(@, now) ELSE @]
    /\ UNCHANGED <<now, dbVars, queueVars, cache, msgHist, voiceVars, lb, cacheHist, callVars,
                   closeVars, failVars, name_call, view_setting, viewVars, pool, pool_call,
                   event_log, read_log, switch_log, old_failed, initialized, toolVars>>

(* ------------------------------------------------------------------ *)
(* LeaderboardService.handle_voice_state_update                        *)
(* ------------------------------------------------------------------ *)
(* DatabaseManager.update_voice_join: the queued statement *)
JoinOp(u, g, t) == [query |-> "join", key |-> <<u, g>>, t |-> t]

(* DatabaseManager.update_voice_leave: the queued statement *)
LeaveOp(u, g, new_total) == [query |-> "leave", key |-> <<u, g>>, new_total |-> new_total]

HasOpenSessionMutant(row) == row # NoVoice
(* if result and result[0]: a row whose join_time is neither NULL nor 0 *)
HasOpenSession(row) == row # NoVoice /\ row.join_time # NULL /\ row.join_time # 0

(* what update_voice_leave queues, given the row it selected *)
LeaveOps(u, g, row, current_time) ==
    IF HasOpenSession(row)
    THEN <<LeaveOp(u, g, row.total_time + (current_time - row.join_time))>>
    ELSE <<>>

VoiceCacheKeys(u, g) ==
    << "voice_leaderboard_" \o ToString(g),
       "voice_leaderboard_global",
       "user_voice_stats_" \o ToString(u) \o "_" \o ToString(g) >>

(* the end of the handler: _cache_user_if_needed and the cache invalidation *)
VoiceHandlerEnd(u, g) ==
    /\ \E bot_has_user \in BOOLEAN :
          user_cache' = CacheUserIfNeeded(user_cache, u, bot_has_user)
    /\ cache' = CacheDeleteAll(cache, VoiceCacheKeys(u, g))

(* before.channel is None and after.channel is not None *)
VoiceJoin(u, g) ==
    /\ ENABLE_VOICE_TRACKING
    /\ ~in_voice[<<u, g>>]
    /\ voice_pc[<<u, g>>] = "idle"
    /\ QueueRoom
    /\ in_voice' = [in_voice EXCEPT ![<<u, g>>] = TRUE]
    /\ first_session' = [first_session EXCEPT ![<<u, g>>] =
          IF @ = NoSession /\ RateLimitOk(rate_limit_tracker[u, "voice"], now)
          THEN [@ EXCEPT !.join_at = now] ELSE [@ EXCEPT !.more = TRUE]]
    /\ rate_limit_tracker' = [rate_limit_tracker EXCEPT ![u, "voice"] =
                                 RateLimitAfter(@, now)]
    /\ IF RateLimitOk(rate_limit_tracker[u, "voice"], now)
       THEN /\ batch_queue' = Append(batch_queue, JoinOp(u, g, now))
            /\ VoiceHandlerEnd(u, g)
       ELSE UNCHANGED <<batch_queue, user_cache, cache>>
    /\ UNCHANGED <<now, messages, voice, last_reset, operations, batch_task,
                   msgHist, voice_pc, leave_time, lb, procVars, cacheHist>>

(* after.channel is None (kind "leave") or another channel (kind "switch"):
   the rate limit check, then update_voice_leave up to its SELECT, which
   waits for a pooled connection *)
VoiceLeaveBegin(u, g, kind) ==
    /\ ENABLE_VOICE_TRACKING
    /\ in_voice[<<u, g>>]
    /\ voice_pc[<<u, g>>] = "idle"
    /\ in_voice' = [in_voice EXCEPT ![<<u, g>>] = (kind = "switch")]
    /\ first_session' = [first_session EXCEPT ![<<u, g>>] =
          IF /\ kind = "leave" /\ ~@.more /\ @.join_at # NULL /\ @.leave_at = NULL
             /\ RateLimitOk(rate_limit_tracker[u, "voice"], now)
          THEN [@ EXCEPT !.leave_at = now] ELSE [@ EXCEPT !.more = TRUE]]
    /\ rate_limit_tracker' = [rate_limit_tracker EXCEPT ![u, "voice"] =
                                 RateLimitAfter(@, now)]
    /\ IF RateLimitOk(rate_limit_tracker[u, "voice"], now)
       THEN /\ voice_pc' = [voice_pc EXCEPT ![<<u, g>>] = kind]
            /\ leave_time' = [leave_time EXCEPT ![<<u, g>>] = now]
       ELSE UNCHANGED <<voice_pc, leave_time>>
    /\ UNCHANGED <<now, dbVars, queueVars, cache, msgHist, lb, procVars, cacheHist>>

(* the SELECT of update_voice_leave and everything after it: the UPDATE is
   queued, then update_voice_join for a switch, then the handler's end *)
VoiceLeaveSelect(u, g) ==
    /\ voice_pc[<<u, g>>] \in {"leave", "switch"}
    /\ Len(batch_queue) + Len(operations) + 2 <= MaxQueue
    /\ batch_queue' = batch_queue
          \o LeaveOps(u, g, voice[<<u, g>>], leave_time[<<u, g>>])
          \o (IF voice_pc[<<u, g>>] = "switch" THEN <<JoinOp(u, g, now)>> ELSE <<>>)
    /\ VoiceHandlerEnd(u, g)
    /\ voice_pc' = [voice_pc EXCEPT ![<<u, g>>] = "idle"]
    /\ leave_time' = [leave_time EXCEPT ![<<u, g>>] = NULL]
    /\ switch_log' = [switch_log EXCEPT ![<<u, g>>] =
          IF voice_pc[<<u, g>>] = "switch" /\ HasOpenSession(voice[<<u, g>>])
          THEN [at |-> now,
                total |-> voice[<<u, g>>].total_time
                             + (leave_time[<<u, g>>] - voice[<<u, g>>].join_time)]
          ELSE NoSwitch]
    /\ UNCHANGED <<now, messages, voice, last_reset, operations, batch_task,
                   rate_limit_tracker, msgHist, in_voice, first_session, lb, cacheHist,
                   callVars, closeVars, failVars, name_call, view_setting, viewVars, pool,
                   pool_call, event_log, read_log, old_failed, utilVars>>

(* the voice events of one member: the rows of different members do not
   interact *)
VoiceUsers == {1}

NextVoice ==
    \/ Tick
    \/ WorkerTake
    \/ WorkerFlush
    \/ \E u \in VoiceUsers, g \in Guilds : VoiceJoin(u, g)
    \/ \E u \in VoiceUsers, g \in Guilds, kind \in {"leave", "switch"} :
          VoiceLeaveBegin(u, g, kind)
    \/ \E u \in VoiceUsers, g \in Guilds : VoiceLeaveSelect(u, g)

SpecVoice == Init /\ [][NextVoice]_vars

(* a member who joins and switches channels while another member joins *)
NextSwitch ==
    \/ Tick
    \/ WorkerTake
    \/ WorkerFlush
    \/ \E u \in Users, g \in Guilds : VoiceJoin(u, g)
    \/ \E u \in VoiceUsers, g \in Guilds : VoiceLeaveBegin(u, g, "switch")
    \/ \E u \in VoiceUsers, g \in Guilds : VoiceLeaveSelect(u, g)

SpecSwitch == Init /\ [][NextSwitch]_vars

(* ------------------------------------------------------------------ *)
(* The calls of CacheService                                           *)
(* ------------------------------------------------------------------ *)
NotCacheVars == <<dbVars, queueVars, rate_limit_tracker, msgHist, voiceVars, lb, procVars, watched>>

(* since_set after a call that leaves the cache c2: the call evicted the
   watched key when it dropped its entry *)
SinceAfter(c2, what) ==
    IF what # "" THEN what
    ELSE IF CacheHas(cache, watched) /\ ~CacheHas(c2, watched) THEN "evicted"
    ELSE since_set

(* the use of a key: it becomes the most recently used one *)
Used(order, key) == Append(SelectSeq(order, LAMBDA k : k # key), key)

CacheSetCall(key, value, ttl) ==
    /\ cache' = CacheSet(cache, key, value, ttl, now)
    /\ use_order' = Used(use_order, key)
    /\ evict_log' = SelectSeq(cache, LAMBDA e : e.key # key /\ ~CacheHas(cache', e.key))
    /\ cache_op' = NoCacheOp
    /\ set_log' = IF key = watched
                  THEN [value |-> value, at |-> now,
                        ttl |-> IF ttl = NULL THEN default_ttl ELSE ttl]
                  ELSE set_log
    /\ since_set' = IF key = watched
                    THEN IF CacheHas(cache', watched) THEN "none" ELSE "evicted"
                    ELSE SinceAfter(cache', "")
    /\ UNCHANGED <<now, NotCacheVars>>

CacheGetCall(key) ==
    /\ cache' = CacheAfterGet(cache, key, now)
    /\ LET r == CacheGetResult(cache, key, now)
       IN cache_op' = IF key = watched
                      THEN [op |-> "get", found |-> r.found,
                            value |-> IF r.found THEN r.value ELSE ""]
                      ELSE NoCacheOp
    /\ use_order' = IF CacheGetResult(cache, key, now).found
                    THEN Used(use_order, key) ELSE use_order
    /\ evict_log' = <<>>
    /\ UNCHANGED <<now, NotCacheVars, set_log, since_set>>

CacheDeleteCall(key) ==
    /\ cache' = CacheDelete(cache, key)
    /\ cache_op' = NoCacheOp
    /\ since_set' = IF key = watched THEN "deleted" ELSE since_set
    /\ evict_log' = <<>>
    /\ UNCHANGED <<now, NotCacheVars, set_log, use_order>>

CacheClearCall ==
    /\ cache' = CacheClear(cache)
    /\ cache_op' = NoCacheOp
    /\ since_set' = "cleared"
    /\ evict_log' = <<>>
    /\ UNCHANGED <<now, NotCacheVars, set_log, use_order>>

CacheRefreshCall(key, ttl) ==
    /\ cache' = CacheAfterRefresh(cache, key, ttl, now)
    /\ cache_op' = NoCacheOp
    /\ since_set' = IF key = watched /\ CacheRefreshResult(cache, key, now)
                    THEN "refreshed" ELSE since_set
    /\ use_order' = IF CacheRefreshResult(cache, key, now)
                    THEN Used(use_order, key) ELSE use_order
    /\ evict_log' = <<>>
    /\ UNCHANGED <<now, NotCacheVars, set_log>>

CacheHasKeyCall(key) ==
    /\ cache' = CacheAfterHasKey(cache, key, now)
    /\ cache_op' = NoCacheOp
    /\ evict_log' = <<>>
    /\ UNCHANGED <<now, NotCacheVars, set_log, since_set, use_order>>

CacheCleanupExpiredCall ==
    /\ cache' = CacheCleanupExpired(cache, now)
    /\ cache_op' = NoCacheOp
    /\ evict_log' = <<>>
    /\ UNCHANGED <<now, NotCacheVars, set_log, since_set, use_order>>

NextCache ==
    \/ Tick
    \/ \E key \in CacheKeys :
          \E value \in CacheValuesOf(key), ttl \in CacheTtlsOf(key) :
             CacheSetCall(key, value, ttl)
    \/ \E key \in CacheKeys : CacheGetCall(key)
    \/ \E key \in CacheKeys : CacheDeleteCall(key)
    \/ CacheClearCall
    \/ \E key \in CacheKeys : \E ttl \in CacheTtlsOf(key) : CacheRefreshCall(key, ttl)
    \/ \E key \in CacheKeys : CacheHasKeyCall(key)
    \/ CacheCleanupExpiredCall

SpecCache == Init /\ [][NextCache]_vars

(* ------------------------------------------------------------------ *)
(* The ranking queries                                                 *)
(* ------------------------------------------------------------------ *)
Min(a, b) == IF a < b THEN a ELSE b

(* ORDER BY value DESC over rows <<user_id, value>>. SQL leaves the order of
   equal values open: tie picks one of two orders, by user_id up or down. *)
RowBefore(x, y, tie) ==
    \/ x[2] > y[2]
    \/ x[2] = y[2] /\ (IF tie = "up" THEN x[1] <= y[1] ELSE x[1] >= y[1])

RECURSIVE OrderByDesc(_, _)
OrderByDesc(rows, tie) ==
    IF rows = {} THEN <<>>
    ELSE LET first == CHOOSE x \in rows : \A y \in rows : RowBefore(x, y, tie)
         IN <<first>> \o OrderByDesc(rows \ {first}, tie)

(* LIMIT ?: a negative limit is no limit in SQLite *)
SqlLimitMutant(rows, limit) == rows
SqlLimit(rows, limit) ==
    IF limit < 0 THEN rows ELSE SubSeq(rows, 1, Min(limit, Len(rows)))

RowKeys(table, none) == {k \in DOMAIN table : table[k] # none}

RECURSIVE SumCount(_, _)
SumCount(table, keys) ==
    IF keys = {} THEN 0
    ELSE LET k == CHOOSE x \in keys : TRUE
         IN table[k].count + SumCount(table, keys \ {k})

(* DatabaseManager.get_message_leaderboard; guild_id None or 0 is the query
   over all guilds *)
DbMessageLeaderboard(table, guild_id, limit, tie) ==
    LET keys == RowKeys(table, NoRow)
        rows == IF guild_id # 0
                THEN {<<k[1], table[k].count>> : k \in {x \in keys : x[2] = guild_id}}
                ELSE {<<u, SumCount(table, {x \in keys : x[1] = u})>> :
                         u \in {k[1] : k \in keys}}
    IN SqlLimit(OrderByDesc(rows, tie), limit)

(* CASE WHEN join_time IS NOT NULL THEN total_time + (? - join_time)
   ELSE total_time END *)
CurrentTotalMutant(row, current_time) == row.total_time
CurrentTotal(row, current_time) ==
    IF row.join_time # NULL
    THEN row.total_time + (current_time - row.join_time)
    ELSE row.total_time

RECURSIVE SumCurrentTotal(_, _, _)
SumCurrentTotal(table, keys, current_time) ==
    IF keys = {} THEN 0
    ELSE LET k == CHOOSE x \in keys : TRUE
         IN CurrentTotal(table[k], current_time)
              + SumCurrentTotal(table, keys \ {k}, current_time)

(* DatabaseManager.get_voice_leaderboard *)
DbVoiceLeaderboard(table, guild_id, limit, current_time, tie) ==
    LET keys == RowKeys(table, NoVoice)
        rows == IF guild_id # 0
                THEN {<<k[1], CurrentTotal(table[k], current_time)>> :
                         k \in {x \in keys : x[2] = guild_id}}
                ELSE {<<u, SumCurrentTotal(table, {x \in keys : x[1] = u}, current_time)>> :
                         u \in {k[1] : k \in keys}}
    IN SqlLimit(OrderByDesc(rows, tie), limit)

(* limit = min(limit, 10) *)
ServiceLimit(limit) == Min(limit, TopLimit)

(* LeaderboardEntry.create_message_entry / create_voice_entry over
   enumerate(raw_data, 1) *)
Entries(raw_data) ==
    [i \in 1..Len(raw_data) |->
        [position |-> i, user_id |-> raw_data[i][1], value |-> raw_data[i][2]]]

(* the rows a service call computes on a cache miss *)
ServiceMessageEntries(table, guild_id, limit, tie) ==
    Entries(DbMessageLeaderboard(table, guild_id, ServiceLimit(limit), tie))

ServiceVoiceEntries(table, guild_id, limit, current_time, tie) ==
    Entries(DbVoiceLeaderboard(table, guild_id, ServiceLimit(limit), current_time, tie))

(* The inputs of the ranking specifications: message tables with a row in
   guild 1 for the users 1..n (n up to 3, or all RankUsers, more than the
   service's top 10), every count 1 or 2, and possibly a row of user 1 in
   guild 2. *)
RankCounts == {1, 2}
RankLimits == {0, 2, TopLimit, TopLimit + 1}
RankGuilds == {0, 1, 2}
RankKeys == (1..RankUsers) \X {1, 2}

RankMessageTable(n, c, c2) ==
    [k \in RankKeys |->
        IF k[2] = 1 /\ k[1] <= n THEN [count |-> c[k[1]], channel_id |-> 1]
        ELSE IF k = <<1, 2>> /\ c2 > 0 THEN [count |-> c2, channel_id |-> 1]
        ELSE NoRow]

RankMessageTables ==
    UNION { { RankMessageTable(n, c, c2) : c \in [1..n -> RankCounts], c2 \in {0} \cup RankCounts } :
              n \in (0..3) \cup {RankUsers} }

InitRankMsg ==
    /\ now = 1
    /\ messages \in RankMessageTables
    /\ voice = [k \in Keys |-> NoVoice]
    /\ InitRest

QueryVars ==
    <<now, dbVars, queueVars, rate_limit_tracker, cache, msgHist, voiceVars, cacheHist, procVars>>

(* The ranking specifications run one query on each table. *)
DbGetMessageLeaderboard(guild_id, limit, tie) ==
    /\ lb = NoQuery
    /\ lb' = [api |-> "db", guild_id |-> guild_id, limit |-> limit,
              rows |-> Entries(DbMessageLeaderboard(messages, guild_id, limit, tie))]
    /\ UNCHANGED QueryVars

ServiceComputeMessageLeaderboard(guild_id, limit, tie) ==
    /\ lb = NoQuery
    /\ lb' = [api |-> "service", guild_id |-> guild_id, limit |-> limit,
              rows |-> ServiceMessageEntries(messages, guild_id, limit, tie)]
    /\ UNCHANGED QueryVars

NextRankMsg ==
    \/ \E g \in RankGuilds, limit \in RankLimits, tie \in {"up", "down"} :
          DbGetMessageLeaderboard(g, limit, tie)
    \/ \E g \in RankGuilds, limit \in RankLimits, tie \in {"up", "down"} :
          ServiceComputeMessageLeaderboard(g, limit, tie)

SpecRankMsg == InitRankMsg /\ [][NextRankMsg]_vars

(* Voice tables of the ranking specification: four keys, total_time 0 or 1,
   join_time NULL, 1 or the current time. *)
RankVoiceKeys == {<<1, 1>>, <<2, 1>>, <<3, 1>>, <<1, 2>>}
RankVoiceLimits == {0, 2, 3}
RankVoiceRows(t) ==
    {NoVoice} \cup [total_time : {0, 1}, join_time : {NULL, 1, t}]

InitRankVoice ==
    /\ now \in 1..MaxTime
    /\ messages = [k \in Keys |-> NoRow]
    /\ voice \in [RankVoiceKeys -> RankVoiceRows(now)]
    /\ InitRest

DbGetVoiceLeaderboard(guild_id, limit, tie) ==
    /\ lb = NoQuery
    /\ lb' = [api |-> "voice", guild_id |-> guild_id, limit |-> limit,
              rows |-> Entries(DbVoiceLeaderboard(voice, guild_id, limit, now, tie))]
    /\ UNCHANGED QueryVars

NextRankVoice ==
    \E g \in RankGuilds, limit \in RankVoiceLimits, tie \in {"up", "down"} :
       DbGetVoiceLeaderboard(g, limit, tie)

SpecRankVoice == InitRankVoice /\ [][NextRankVoice]_vars

(* the voice events together with a read of the voice leaderboard *)
NextVoiceRead ==
    \/ NextVoice
    \/ \E g \in Guilds, limit \in RankVoiceLimits, tie \in {"up", "down"} :
          DbGetVoiceLeaderboard(g, limit, tie)

SpecVoiceRead == Init /\ [][NextVoiceRead]_vars

(* ------------------------------------------------------------------ *)
(* LeaderboardService.get_message_leaderboard / get_voice_leaderboard  *)
(* as coroutines: one action per stretch between two awaits that wait  *)
(* for a pooled connection                                             *)
(* ------------------------------------------------------------------ *)
(* LEADERBOARD_SIZE, the limit of a call without one *)
LEADERBOARD_SIZE == 10
(* LEADERBOARD_REFRESH_DAYS * 24 * 3600 seconds, 30 days by default, in the
   model's clock *)
RefreshInterval == 2

(* DatabaseManager.should_reset_leaderboard, given the stored setting *)
ShouldResetMutant(setting, t) == setting = NULL \/ t - setting >= 0
ShouldReset(setting, t) == setting = NULL \/ t - setting >= RefreshInterval

(* f"{kind}_leaderboard_{guild_id or 'global'}_{limit}" *)
LeaderboardCacheKey(kind, guild_id, limit) ==
    kind \o "_leaderboard_" \o (IF guild_id = 0 THEN "global" ELSE ToString(guild_id))
         \o "_" \o ToString(limit)

CallKey(call) == LeaderboardCacheKey(call.kind, call.guild_id, ServiceLimit(LEADERBOARD_SIZE))

(* the ttl of cache_service.set: the default for messages, 60 s for voice *)
CallTtl(call) == IF call.kind = "voice" THEN VOICE_TTL ELSE NULL

CallOthers ==
    <<now, queueVars, rate_limit_tracker, msgHist, voiceVars, lb, cacheHist, closeVars, failVars,
      name_call, restVars, view_setting, viewVars>>

(* the call: limit = min(limit, 10), then should_reset_leaderboard awaits
   get_setting *)
LeaderboardCall(c, kind, guild_id) ==
    /\ lb_call[c].pc \in {"idle", "done", "raised"}
    /\ lb_call[c].calls < MaxLbCalls
    /\ lb_call' = [lb_call EXCEPT ![c] = [NoCall EXCEPT !.pc = "check", !.kind = kind,
                                                       !.guild_id = guild_id,
                                                       !.calls = lb_call[c].calls + 1]]
    /\ UNCHANGED <<CallOthers, dbVars, cache, calls_at_reset>>

(* cached = self.cache_service.get(cache_key); if cached: return cached;
   otherwise the call awaits the database query *)
CallCacheLookup(c, cache_before) ==
    LET call == lb_call[c]
        r == CacheGetResult(cache_before, CallKey(call), now)
    IN /\ cache' = CacheAfterGet(cache_before, CallKey(call), now)
       /\ lb_call' = [lb_call EXCEPT ![c] =
             IF r.found /\ r.value # <<>>
             THEN [call EXCEPT !.pc = "done", !.result = r.value]
             ELSE [call EXCEPT !.pc = "query"]]

(* the SELECT of get_setting and the decision of should_reset_leaderboard: a
   reset starts, or the cache is tried *)
CallCheck(c) ==
    /\ lb_call[c].pc = "check"
    /\ IF ShouldReset(last_reset, now)
       THEN /\ lb_call' = [lb_call EXCEPT ![c].pc = "delete_messages"]
            /\ UNCHANGED cache
       ELSE CallCacheLookup(c, cache)
    /\ UNCHANGED <<CallOthers, dbVars, calls_at_reset>>

(* the rows a call in flight holds are those of before the DELETE *)
MarkStale(calls, kind) ==
    [c \in Callers |->
        IF calls[c].pc = "names" /\ calls[c].kind = kind
        THEN [calls[c] EXCEPT !.stale = TRUE] ELSE calls[c]]

(* reset_leaderboard_data: DELETE FROM messages *)
ResetDeleteMessages(c) ==
    /\ lb_call[c].pc = "delete_messages"
    /\ messages' = [k \in DOMAIN messages |-> NoRow]
    /\ calls_at_reset' = inc_calls
    /\ lb_call' = [MarkStale(lb_call, "message") EXCEPT ![c].pc = "delete_voice"]
    /\ UNCHANGED <<CallOthers, voice, last_reset, user_cache, cache>>

(* DELETE FROM voice; current_time = int(time.time()) *)
ResetDeleteVoice(c) ==
    /\ lb_call[c].pc = "delete_voice"
    /\ voice' = [k \in DOMAIN voice |-> NoVoice]
    /\ lb_call' = [MarkStale(lb_call, "voice") EXCEPT ![c].pc = "delete_user_cache",
                                                      ![c].current_time = now]
    /\ UNCHANGED <<CallOthers, messages, last_reset, user_cache, cache, calls_at_reset>>

(* DELETE FROM user_cache WHERE cached_at < ?: the rows older than 7 days,
   which the table of the model leaves open *)
ResetDeleteUserCache(c) ==
    /\ lb_call[c].pc = "delete_user_cache"
    /\ \E old \in SUBSET user_cache : user_cache' = user_cache \ old
    /\ lb_call' = [lb_call EXCEPT ![c].pc = "record_reset"]
    /\ UNCHANGED <<CallOthers, messages, voice, last_reset, cache, calls_at_reset>>

(* INSERT OR REPLACE INTO settings ('last_leaderboard_reset', current_time);
   back in the service: cache_service.clear(), then the cache is tried *)
ResetRecord(c) ==
    /\ lb_call[c].pc = "record_reset"
    /\ last_reset' = lb_call[c].current_time
    /\ CallCacheLookup(c, CacheClear(cache))
    /\ UNCHANGED <<CallOthers, messages, voice, user_cache, calls_at_reset>>

(* raw_data = await self.db_manager.get_*_leaderboard(guild_id, limit); with
   no row the loop is empty and the call caches and returns [] *)
CallQuery(c, tie) ==
    /\ lb_call[c].pc = "query"
    /\ LET call == lb_call[c]
           limit == ServiceLimit(LEADERBOARD_SIZE)
           raw == IF call.kind = "message"
                  THEN DbMessageLeaderboard(messages, call.guild_id, limit, tie)
                  ELSE DbVoiceLeaderboard(voice, call.guild_id, limit, now, tie)
       IN IF raw = <<>>
          THEN /\ cache' = CacheSet(cache, CallKey(call), <<>>, CallTtl(call), now)
               /\ lb_call' = [lb_call EXCEPT ![c].pc = "done"]
          ELSE /\ lb_call' = [lb_call EXCEPT ![c].pc = "names", ![c].raw_data = raw]
               /\ UNCHANGED cache
    /\ UNCHANGED <<CallOthers, dbVars, calls_at_reset>>

(* the loop over raw_data: _get_username caches the users the bot knows;
   then cache_service.set(cache_key, entries) and return entries *)
CallNames(c) ==
    /\ lb_call[c].pc = "names"
    /\ LET call == lb_call[c]
           entries == Entries(call.raw_data)
       IN /\ \E known \in SUBSET {call.raw_data[i][1] : i \in 1..Len(call.raw_data)} :
                user_cache' = user_cache \cup known
          /\ cache' = CacheSet(cache, CallKey(call), entries, CallTtl(call), now)
          /\ lb_call' = [lb_call EXCEPT ![c].pc = "done", ![c].result = entries]
    /\ UNCHANGED <<CallOthers, messages, voice, last_reset, calls_at_reset>>

(* The database call the coroutine awaits at its position raises.
   - in should_reset_leaderboard: its except returns False, so the call goes
     on to the cache without a reset;
   - in reset_leaderboard_data: its except logs and re-raises, and the service
     calls it outside its try, so the exception leaves get_*_leaderboard (the
     statements already executed are committed);
   - in the ranking query: the except of the service logs and returns []. *)
CallFails(c) ==
    LET call == lb_call[c]
    IN /\ call.pc \in {"check", "delete_messages", "delete_voice", "delete_user_cache",
                       "record_reset", "query"}
       /\ IF call.pc = "check"
          THEN LET r == CacheGetResult(cache, CallKey(call), now)
               IN /\ cache' = CacheAfterGet(cache, CallKey(call), now)
                  /\ lb_call' = [lb_call EXCEPT ![c] =
                        IF r.found /\ r.value # <<>>
                        THEN [call EXCEPT !.pc = "done", !.result = r.value, !.error = "check"]
                        ELSE [call EXCEPT !.pc = "query", !.error = "check"]]
          ELSE /\ lb_call' = [lb_call EXCEPT ![c] =
                        IF call.pc = "query"
                        THEN [call EXCEPT !.pc = "done", !.result = <<>>, !.error = "query"]
                        ELSE [call EXCEPT !.pc = "raised", !.error = "reset"]]
               /\ UNCHANGED cache
       /\ UNCHANGED <<CallOthers, dbVars, calls_at_reset>>

(* the messages tracked while leaderboards are requested *)
ResetIncrement(u, g, ch) ==
    /\ SumOver(inc_calls, Keys) < MaxResetEvents
    /\ IncrementMessageCount(u, g, ch)

NextReset ==
    \/ Tick
    \/ WorkerTake
    \/ WorkerFlush
    \/ \E u \in Users, g \in Guilds, ch \in Channels : ResetIncrement(u, g, ch)
    \/ \E c \in Callers, kind \in {"message", "voice"}, g \in Guilds : LeaderboardCall(c, kind, g)
    \/ \E c \in Callers : CallCheck(c)
    \/ \E c \in Callers : ResetDeleteMessages(c)
    \/ \E c \in Callers : ResetDeleteVoice(c)
    \/ \E c \in Callers : ResetDeleteUserCache(c)
    \/ \E c \in Callers : ResetRecord(c)
    \/ \E c \in Callers, tie \in {"up", "down"} : CallQuery(c, tie)
    \/ \E c \in Callers : CallNames(c)

SpecReset == Init /\ [][NextReset]_vars

(* ------------------------------------------------------------------ *)
(* Everything that runs between two resets and around one              *)
(* ------------------------------------------------------------------ *)
(* DatabaseManager.cleanup_old_data: DELETE FROM user_cache WHERE cached_at < ?
   (30 days), the rows older than that being left open by the model's table *)
CleanupOldData ==
    /\ \E old \in SUBSET user_cache : user_cache' = user_cache \ old
    /\ UNCHANGED <<now, messages, voice, last_reset, queueVars, rate_limit_tracker, cache,
                   histVars>>

(* one requester of leaderboards, whose calls reset when the reset is due *)
CountersCaller == 1

NextCounters ==
    \/ Tick
    \/ WorkerTake
    \/ WorkerFlush
    \/ \E u \in Users, g \in Guilds, ch \in Channels : ResetIncrement(u, g, ch)
    \/ \E u \in VoiceUsers, g \in Guilds : VoiceJoin(u, g)
    \/ CleanupOldData
    \/ \E g \in Guilds : LeaderboardCall(CountersCaller, "message", g)
    \/ CallCheck(CountersCaller)
    \/ ResetDeleteMessages(CountersCaller)
    \/ ResetDeleteVoice(CountersCaller)
    \/ ResetDeleteUserCache(CountersCaller)
    \/ ResetRecord(CountersCaller)
    \/ \E tie \in {"up", "down"} : CallQuery(CountersCaller, tie)
    \/ CallNames(CountersCaller)

SpecCounters == Init /\ [][NextCounters]_vars

(* ------------------------------------------------------------------ *)
(* LeaderboardService._get_username                                    *)
(* ------------------------------------------------------------------ *)
(* the fallback on the row of user_cache: the name it gives, "" when the row
   is missing or its username is empty or the placeholder f"User {user_id}" *)
CachedName(cached, user_id) ==
    IF cached = NoCached \/ cached.username = ""
          \/ cached.username = "User " \o ToString(user_id)
    THEN ""
    ELSE IF cached.discriminator # "" /\ cached.discriminator # "0"
         THEN cached.username \o "#" \o cached.discriminator
         ELSE cached.username

(* user: what bot.get_user gives ("" for None); fetched: what bot.fetch_user
   gives, a name, "not_found" (discord.NotFound) or "error" (any other
   exception, which only the outer except catches); member: what the guilds'
   get_member gives; db_error: get_cached_user raises. *)
GetUsername(user_id, bot, user, fetched, member, cached, db_error) ==
    IF bot /\ user # "" THEN user
    ELSE IF bot /\ fetched = "error" THEN "Unknown User"
    ELSE IF bot /\ fetched # "not_found" THEN fetched
    ELSE IF bot /\ member # "" THEN member
    ELSE IF db_error THEN "Unknown User"
    ELSE IF CachedName(cached, user_id) # "" THEN CachedName(cached, user_id)
    ELSE "Unknown User"

(* one call: the directory answers are drawn, the row read is one of the
   user's cached rows; _cache_user_if_needed stores the user bot.get_user found *)
GetUsernameCall(user_id, bot, user, fetched, member, cached, db_error) ==
    /\ (cached = NoCached) = (user_id \notin user_cache)
    /\ name_call' = [user_id |-> user_id, bot |-> bot, user |-> user, fetched |-> fetched,
                     member |-> member, cached |-> cached, db_error |-> db_error,
                     result |-> GetUsername(user_id, bot, user, fetched, member, cached,
                                            db_error)]
    /\ user_cache' = IF bot /\ ~db_error THEN CacheUserIfNeeded(user_cache, user_id, user # "")
                     ELSE user_cache
    /\ UNCHANGED <<now, messages, voice, last_reset, queueVars, rate_limit_tracker, cache,
                   msgHist, voiceVars, lb, cacheHist, callVars, closeVars, failVars,
                   view_setting, viewVars, restVars>>

NextUsername ==
    \E user_id \in Users, bot \in BOOLEAN, user \in {"", "alice"},
       fetched \in {"alice", "not_found", "error"}, member \in {"", "alice"},
       cached \in {NoCached} \cup [username : {"", "User 1", "al"},
                                   discriminator : {"", "0", "1234"}],
       db_error \in BOOLEAN :
          GetUsernameCall(user_id, bot, user, fetched, member, cached, db_error)

SpecUsername == Init /\ [][NextUsername]_vars

(* ------------------------------------------------------------------ *)
(* LeaderboardService.update_leaderboard_message                       *)
(* ------------------------------------------------------------------ *)
(* set_setting(setting_key, str(message.id)): a queued batch operation *)
SetSettingOp(key, message_id) ==
    [query |-> "set_setting", key |-> key, value |-> ToString(message_id)]

(* int(message_id) of the stored string *)
ParseInt(str) == CHOOSE i \in 0..(MaxViews + 1) : ToString(i) = str

(* where the call goes on when fetching or deleting the old message did not
   succeed: both except clauses log, and the call sends the new message *)
AfterOldMessageMutant(outcome) == IF outcome = "error" THEN "raised" ELSE "send"
AfterOldMessage(outcome) == "send"

(* the call up to message_id = await self.db_manager.get_setting(setting_key):
   the bot has the channel and the embed is built; the row is read from the
   table, whatever the batch queue still holds *)
CycleStart(c, leaderboard_type, guild_id) ==
    /\ cycle[c].pc \in {"idle", "done", "failed"}
    /\ Len(sent_log) < MaxViews
    /\ LET key == SettingKey(leaderboard_type, guild_id)
       IN cycle' = [cycle EXCEPT ![c] =
             [NoCycle EXCEPT !.key = key, !.message_id = view_setting[key],
                             !.pc = IF view_setting[key] # "" THEN "fetch" ELSE "send"]]
    /\ UNCHANGED <<now, dbVars, queueVars, rate_limit_tracker, cache, msgHist, voiceVars, lb,
                   cacheHist, callVars, closeVars, failVars, name_call, restVars, view_setting, views,
                   sent_log>>

(* old_message = await channel.fetch_message(int(message_id)) *)
CycleFetch(c, outcome) ==
    /\ cycle[c].pc = "fetch"
    /\ outcome = "found" => ParseInt(cycle[c].message_id) \in views
    /\ outcome = "not_found" => ParseInt(cycle[c].message_id) \notin views
    /\ cycle' = [cycle EXCEPT ![c] =
           IF outcome = "found" THEN [@ EXCEPT !.pc = "delete"]
           ELSE [@ EXCEPT !.pc = AfterOldMessage(outcome), !.old = outcome]]
    /\ old_failed' = (old_failed \/ outcome # "found")
    /\ UNCHANGED <<now, dbVars, queueVars, rate_limit_tracker, cache, msgHist, voiceVars, lb,
                   cacheHist, callVars, closeVars, failVars, name_call, view_setting, views,
                   sent_log, pool, pool_call, event_log, read_log, switch_log, utilVars>>

(* await old_message.delete(); await asyncio.sleep(0.5) *)
CycleDelete(c, outcome) ==
    /\ cycle[c].pc = "delete"
    /\ outcome = "deleted" => ParseInt(cycle[c].message_id) \in views
    /\ outcome = "not_found" => ParseInt(cycle[c].message_id) \notin views
    /\ views' = IF outcome = "deleted" THEN views \ {ParseInt(cycle[c].message_id)} ELSE views
    /\ cycle' = [cycle EXCEPT ![c] =
           IF outcome = "deleted" THEN [@ EXCEPT !.pc = "send", !.old = outcome]
           ELSE [@ EXCEPT !.pc = AfterOldMessage(outcome), !.old = outcome]]
    /\ old_failed' = (old_failed \/ outcome # "deleted")
    /\ UNCHANGED <<now, dbVars, queueVars, rate_limit_tracker, cache, msgHist, voiceVars, lb,
                   cacheHist, callVars, closeVars, failVars, name_call, view_setting,
                   sent_log, pool, pool_call, event_log, read_log, switch_log, utilVars>>

(* message = await channel.send(embed=embed); set_setting(setting_key,
   str(message.id)), which queues without suspending; when send raises, the
   outer except logs and the call returns *)
CycleSend(c, sent) ==
    /\ cycle[c].pc = "send"
    /\ IF sent
       THEN LET id == Len(sent_log) + 1
            IN /\ QueueRoom
               /\ sent_log' = Append(sent_log, cycle[c].key)
               /\ views' = views \cup {id}
               /\ batch_queue' = Append(batch_queue, SetSettingOp(cycle[c].key, id))
               /\ cycle' = [cycle EXCEPT ![c].pc = "done", ![c].created = id]
       ELSE /\ cycle' = [cycle EXCEPT ![c].pc = "failed"]
            /\ UNCHANGED <<sent_log, views, batch_queue>>
    /\ UNCHANGED <<now, dbVars, operations, batch_task, rate_limit_tracker, cache, msgHist,
                   voiceVars, lb, cacheHist, callVars, closeVars, failVars, name_call,
                   view_setting, restVars>>

(* DatabaseManager.set_setting called on its own: it queues the INSERT OR
   REPLACE and returns *)
SetSetting(key, message_id) ==
    /\ Len(batch_queue) + Len(operations) < MaxPending
    /\ batch_queue' = Append(batch_queue, SetSettingOp(key, message_id))
    /\ UNCHANGED <<now, dbVars, operations, batch_task, rate_limit_tracker, cache, histVars>>

(* more operations queued than one batch takes: settings written over and
   over, and one message counted among them *)
NextBatch ==
    \/ WorkerTake
    \/ WorkerFlush
    \/ SetSetting(SettingKey("message", 1), 1)
    \/ \E u \in VoiceUsers, g \in Guilds, c \in Channels :
          inc_calls[<<u, g>>] = 0 /\ IncrementMessageCount(u, g, c)

SpecBatch == Init /\ [][NextBatch]_vars

NextView ==
    \/ WorkerTake
    \/ WorkerFlush
    \/ \E c \in Callers, t \in {"message", "voice"}, g \in Guilds : CycleStart(c, t, g)
    \/ \E c \in Callers, outcome \in {"found", "not_found", "forbidden", "error"} :
          CycleFetch(c, outcome)
    \/ \E c \in Callers, outcome \in {"deleted", "not_found", "forbidden", "error"} :
          CycleDelete(c, outcome)
    \/ \E c \in Callers, sent \in BOOLEAN : CycleSend(c, sent)

SpecView == Init /\ [][NextView]_vars

(* ------------------------------------------------------------------ *)
(* Leaderboard requests between tracked messages                       *)
(* ------------------------------------------------------------------ *)
(* get_message_leaderboard(guild_id) with no other coroutine running between
   its awaits: the reset when it is due (with cache_service.clear()), the
   cache lookup under f"message_leaderboard_{guild_id or 'global'}_{limit}",
   and on a miss (or a cached empty list) the query, the names and
   cache_service.set *)
GetMessageLeaderboard(guild_id, tie) ==
    LET reset == ShouldReset(last_reset, now)
        table == IF reset THEN [k \in DOMAIN messages |-> NoRow] ELSE messages
        cache0 == IF reset THEN CacheClear(cache) ELSE cache
        limit == ServiceLimit(LEADERBOARD_SIZE)
        key == LeaderboardCacheKey("message", guild_id, limit)
        r == CacheGetResult(cache0, key, now)
        hit == r.found /\ r.value # <<>>
        raw == DbMessageLeaderboard(table, guild_id, limit, tie)
        events == SumOver(inc_calls, Keys)
    IN /\ messages' = table
       /\ voice' = IF reset THEN [k \in DOMAIN voice |-> NoVoice] ELSE voice
       /\ last_reset' = IF reset THEN now ELSE last_reset
       /\ calls_at_reset' = IF reset THEN inc_calls ELSE calls_at_reset
       /\ cache' = IF hit THEN CacheAfterGet(cache0, key, now)
                   ELSE CacheSet(CacheAfterGet(cache0, key, now), key, Entries(raw), NULL, now)
       /\ \E old \in SUBSET user_cache, known \in SUBSET {raw[i][1] : i \in 1..Len(raw)} :
             user_cache' = ((IF reset THEN user_cache \ old ELSE user_cache)
                               \cup (IF hit THEN {} ELSE known))
       /\ read_log' = [hit |-> hit, events |-> events,
                       entry_events |-> IF hit THEN read_log.entry_events ELSE events]
       /\ UNCHANGED <<now, queueVars, rate_limit_tracker, msgHist, voiceVars, lb, cacheHist,
                      lb_call, closeVars, failVars, name_call, view_setting, viewVars, pool,
                      pool_call, event_log, switch_log, old_failed, utilVars>>

(* the messages of one member and the requests for the guild's leaderboard *)
NextInvalidate ==
    \/ Tick
    \/ WorkerTake
    \/ WorkerFlush
    \/ \E u \in VoiceUsers, g \in Guilds, c \in Channels : TrackMessage(u, g, c)
    \/ \E g \in Guilds, tie \in {"up", "down"} : GetMessageLeaderboard(g, tie)

SpecInvalidate == Init /\ [][NextInvalidate]_vars

(* ------------------------------------------------------------------ *)
(* The event handlers when a step raises                               *)
(* ------------------------------------------------------------------ *)
(* how the handler ends when the step failed_at raises: the except of
   _cache_user_if_needed or the except Exception of the handler logs, and the
   handler returns *)
HandlerOutcomeMutant(failed_at) == IF failed_at = "invalidate" THEN "raised" ELSE "logged"
HandlerOutcome(failed_at) == "logged"

FailurePoints == {"write", "user_cache", "invalidate"}
EventOthers ==
    <<messages, voice, last_reset, operations, batch_task, lb, cacheHist, callVars, closeVars,
      failVars, name_call, view_setting, viewVars, pool, pool_call, read_log, switch_log,
      old_failed, utilVars>>

(* the rest of a handler after its write was queued: the user-cache write
   raises inside _cache_user_if_needed, which logs and returns, or
   cache_service.delete raises after some of the keys *)
FailedEnd(u, keys, failed_at) ==
    /\ IF failed_at = "user_cache" THEN UNCHANGED user_cache
       ELSE \E bot_has_user \in BOOLEAN :
               user_cache' = CacheUserIfNeeded(user_cache, u, bot_has_user)
    /\ IF failed_at = "invalidate"
       THEN \E n \in 0..(Len(keys) - 1) : cache' = CacheDeleteAll(cache, SubSeq(keys, 1, n))
       ELSE cache' = CacheDeleteAll(cache, keys)

(* track_message past the rate limit check, one of its steps raising *)
TrackMessageFails(u, g, c, failed_at) ==
    /\ ENABLE_MESSAGE_TRACKING
    /\ QueueRoom
    /\ msg_events[<<u, g>>] < MaxCalls
    /\ RateLimitOk(rate_limit_tracker[u, "message"], now)
    /\ msg_events' = [msg_events EXCEPT ![<<u, g>>] = @ + 1]
    /\ rate_limit_tracker' = [rate_limit_tracker EXCEPT ![u, "message"] =
                                 RateLimitAfter(@, now)]
    /\ IF failed_at = "write"
       THEN UNCHANGED <<batch_queue, inc_calls, chan_calls, user_cache, cache>>
       ELSE /\ batch_queue' = Append(batch_queue, IncrementOp(u, g, c))
            /\ inc_calls' = [inc_calls EXCEPT ![<<u, g>>] = @ + 1]
            /\ chan_calls' = [chan_calls EXCEPT ![<<u, g>>][c] = @ + 1]
            /\ FailedEnd(u, MessageCacheKeys(u, g), failed_at)
    /\ event_log' = [handler |-> "track_message", failed_at |-> failed_at,
                     outcome |-> HandlerOutcome(failed_at),
                     queued |-> IF failed_at = "write" THEN 0 ELSE 1]
    /\ UNCHANGED <<now, EventOthers, msg_rejected, voiceVars>>

(* handle_voice_state_update for a join past the rate limit check, one of its
   steps raising *)
VoiceJoinFails(u, g, failed_at) ==
    /\ ENABLE_VOICE_TRACKING
    /\ ~in_voice[<<u, g>>]
    /\ voice_pc[<<u, g>>] = "idle"
    /\ QueueRoom
    /\ RateLimitOk(rate_limit_tracker[u, "voice"], now)
    /\ in_voice' = [in_voice EXCEPT ![<<u, g>>] = TRUE]
    /\ first_session' = [first_session EXCEPT ![<<u, g>>].more = TRUE]
    /\ rate_limit_tracker' = [rate_limit_tracker EXCEPT ![u, "voice"] =
                                 RateLimitAfter(@, now)]
    /\ IF failed_at = "write"
       THEN UNCHANGED <<batch_queue, user_cache, cache>>
       ELSE /\ batch_queue' = Append(batch_queue, JoinOp(u, g, now))
            /\ FailedEnd(u, VoiceCacheKeys(u, g), failed_at)
    /\ event_log' = [handler |-> "handle_voice_state_update", failed_at |-> failed_at,
                     outcome |-> HandlerOutcome(failed_at),
                     queued |-> IF failed_at = "write" THEN 0 ELSE 1]
    /\ UNCHANGED <<now, EventOthers, msgHist, voice_pc, leave_time>>

(* the same for a leave or a switch, from the SELECT of update_voice_leave on:
   when the SELECT raises nothing is queued, for a switch not the join either *)
VoiceLeaveSelectFails(u, g, failed_at) ==
    /\ voice_pc[<<u, g>>] \in {"leave", "switch"}
    /\ Len(batch_queue) + Len(operations) + 2 <= MaxQueue
    /\ LET ops == LeaveOps(u, g, voice[<<u, g>>], leave_time[<<u, g>>])
                  \o (IF voice_pc[<<u, g>>] = "switch" THEN <<JoinOp(u, g, now)>> ELSE <<>>)
       IN /\ IF failed_at = "write"
             THEN UNCHANGED <<batch_queue, user_cache, cache>>
             ELSE /\ batch_queue' = batch_queue \o ops
                  /\ FailedEnd(u, VoiceCacheKeys(u, g), failed_at)
          /\ event_log' = [handler |-> "handle_voice_state_update", failed_at |-> failed_at,
                           outcome |-> HandlerOutcome(failed_at),
                           queued |-> IF failed_at = "write" THEN 0 ELSE Len(ops)]
    /\ first_session' = [first_session EXCEPT ![<<u, g>>].more = TRUE]
    /\ voice_pc' = [voice_pc EXCEPT ![<<u, g>>] = "idle"]
    /\ leave_time' = [leave_time EXCEPT ![<<u, g>>] = NULL]
    /\ UNCHANGED <<now, EventOthers, rate_limit_tracker, msgHist, in_voice>>

(* the events of one member within one rate limit window, with and without
   failures *)
NextEventFail ==
    \/ WorkerTake
    \/ WorkerFlush
    \/ \E u \in VoiceUsers, g \in Guilds, c \in Channels : TrackMessage(u, g, c)
    \/ \E u \in VoiceUsers, g \in Guilds, c \in Channels, failed_at \in FailurePoints :
          TrackMessageFails(u, g, c, failed_at)
    \/ \E u \in VoiceUsers, g \in Guilds : VoiceJoin(u, g)
    \/ \E u \in VoiceUsers, g \in Guilds, failed_at \in FailurePoints :
          VoiceJoinFails(u, g, failed_at)
    \/ \E u \in VoiceUsers, g \in Guilds, kind \in {"leave", "switch"} :
          VoiceLeaveBegin(u, g, kind)
    \/ \E u \in VoiceUsers, g \in Guilds : VoiceLeaveSelect(u, g)
    \/ \E u \in VoiceUsers, g \in Guilds, failed_at \in FailurePoints :
          VoiceLeaveSelectFails(u, g, failed_at)

SpecEventFail == Init /\ [][NextEventFail]_vars

(* ------------------------------------------------------------------ *)
(* ConnectionPool.get_connection                                       *)
(* ------------------------------------------------------------------ *)
(* Queue.get: the queue without the connection handed out *)
PoolAfterGetMutant(q) == q
PoolAfterGet(q) == Tail(q)

PoolOthers ==
    <<now, dbVars, queueVars, rate_limit_tracker, cache, msgHist, voiceVars, lb, cacheHist,
      callVars, closeVars, failVars, name_call, view_setting, viewVars, event_log, read_log,
      switch_log, old_failed, utilVars>>

(* async with self.pool.get_connection(): the call hands self._pool.get(True,
   timeout) to the executor and waits for it *)
PoolRequest(c) ==
    /\ pool_call[c].pc = "idle"
    /\ pool_call' = [pool_call EXCEPT ![c].pc = "waiting"]
    /\ UNCHANGED <<PoolOthers, pool>>

(* the blocking get returns the connection at the head of the queue; yield conn *)
PoolGet(c) ==
    /\ pool_call[c].pc = "waiting"
    /\ pool # <<>>
    /\ pool_call' = [pool_call EXCEPT ![c] = [pc |-> "holding", conn |-> Head(pool)]]
    /\ pool' = PoolAfterGet(pool)
    /\ UNCHANGED PoolOthers

(* the queue stayed empty for the timeout: get raises queue.Empty, conn is None *)
PoolTimeout(c) ==
    /\ pool_call[c].pc = "waiting"
    /\ pool = <<>>
    /\ pool_call' = [pool_call EXCEPT ![c] = NoPoolCall]
    /\ UNCHANGED <<PoolOthers, pool>>

(* finally: self._pool.put(conn, block=False); a full queue closes the connection *)
PoolRelease(c) ==
    /\ pool_call[c].pc = "holding"
    /\ pool' = IF Len(pool) < pool_size THEN Append(pool, pool_call[c].conn) ELSE pool
    /\ pool_call' = [pool_call EXCEPT ![c] = NoPoolCall]
    /\ UNCHANGED PoolOthers

NextPool ==
    \/ Tick
    \/ \E c \in PoolCallers : PoolRequest(c)
    \/ \E c \in PoolCallers : PoolGet(c)
    \/ \E c \in PoolCallers : PoolTimeout(c)
    \/ \E c \in PoolCallers : PoolRelease(c)

SpecPool == Init /\ [][NextPool]_vars

(* one caller's leaderboard requests while database calls may raise *)
NextCallFail ==
    \/ Tick
    \/ WorkerTake
    \/ WorkerFlush
    \/ \E u \in Users, g \in Guilds, ch \in Channels : ResetIncrement(u, g, ch)
    \/ \E kind \in {"message", "voice"}, g \in Guilds : LeaderboardCall(CountersCaller, kind, g)
    \/ CallCheck(CountersCaller)
    \/ CallFails(CountersCaller)
    \/ ResetDeleteMessages(CountersCaller)
    \/ ResetDeleteVoice(CountersCaller)
    \/ ResetDeleteUserCache(CountersCaller)
    \/ ResetRecord(CountersCaller)
    \/ \E tie \in {"up", "down"} : CallQuery(CountersCaller, tie)
    \/ CallNames(CountersCaller)

SpecCallFail == Init /\ [][NextCallFail]_vars

(* ------------------------------------------------------------------ *)
(* DatabaseManager.close                                               *)
(* ------------------------------------------------------------------ *)
(* ConnectionPool.close_all: every connection in the queue is taken out and closed *)
CloseAll(q) == <<>>

CloseOthers == <<now, last_reset, user_cache, rate_limit_tracker, cache, msg_events,
                 msg_rejected, chan_calls, voiceVars, lb, cacheHist, callVars, failVars,
                 name_call, pool_call, event_log, read_log, switch_log, old_failed,
                 accept_log, toolVars, viewVars>>

(* self._batch_task.cancel(); await self._batch_task: the worker ends at the
   await it is suspended in, and its local list operations goes with it *)
CloseCancel ==
    /\ close_pc = "open"
    /\ batch_task' = "cancelled"
    /\ operations' = <<>>
    /\ close_pc' = "drain"
    /\ calls_at_close' = inc_calls
    /\ UNCHANGED <<CloseOthers, messages, voice, batch_queue, inc_calls, remaining_ops,
                   view_setting, pool, initialized>>

(* while not self._batch_queue.empty(): remaining_ops.append(get_nowait());
   with nothing left, self.pool.close_all() *)
CloseDrain ==
    /\ close_pc = "drain"
    /\ remaining_ops' = batch_queue
    /\ batch_queue' = <<>>
    /\ close_pc' = IF batch_queue = <<>> THEN "closed" ELSE "execute"
    /\ pool' = IF batch_queue = <<>> THEN CloseAll(pool) ELSE pool
    /\ initialized' = IF batch_queue = <<>> THEN FALSE ELSE initialized
    /\ UNCHANGED <<CloseOthers, messages, voice, operations, batch_task, inc_calls,
                   calls_at_close, view_setting>>

(* await self._execute_batch_operations(remaining_ops); self.pool.close_all() *)
CloseExecute ==
    /\ close_pc = "execute"
    /\ LET db == ExecuteBatch([messages |-> messages, voice |-> voice], remaining_ops)
       IN /\ messages' = db.messages
          /\ voice' = db.voice
    /\ view_setting' = SettingsAfter(view_setting, GroupedOps(remaining_ops))
    /\ remaining_ops' = <<>>
    /\ close_pc' = "closed"
    /\ pool' = CloseAll(pool)
    /\ initialized' = FALSE
    /\ UNCHANGED <<CloseOthers, queueVars, inc_calls, calls_at_close>>

(* _execute_batch_operations raises: `except Exception` logs the error and close
   returns, self.pool.close_all() not reached; the batch is not committed *)
CloseExecuteFails ==
    /\ close_pc = "execute"
    /\ remaining_ops' = <<>>
    /\ close_pc' = "closed"
    /\ UNCHANGED <<CloseOthers, messages, voice, view_setting, queueVars, inc_calls,
                   calls_at_close, pool, initialized>>

NextClose ==
    \/ Tick
    \/ WorkerTake
    \/ WorkerFlush
    \/ \E u \in Users, g \in Guilds, ch \in Channels : IncrementMessageCount(u, g, ch)
    \/ CloseCancel
    \/ CloseDrain
    \/ CloseExecute

SpecClose == Init /\ [][NextClose]_vars

(* _execute_batch_operations on the connection the pool hands out: same says
   whether it is the connection that still holds an open transaction. The
   statements run on top of what that connection sees, and conn.commit()
   commits everything executed on it. *)
BatchCommits(same) ==
    /\ batch_task = "running"
    /\ operations # <<>>
    /\ same = (conn_tx # <<>>)
    /\ LET seen == IF same THEN conn_tx[1] ELSE [messages |-> messages, voice |-> voice]
           db == ExecuteBatch(seen, operations)
       IN /\ messages' = db.messages
          /\ voice' = db.voice
    /\ view_setting' = SettingsAfter(view_setting, GroupedOps(operations))
    /\ conn_tx' = <<>>
    /\ operations' = <<>>
    /\ UNCHANGED <<now, last_reset, user_cache, batch_queue, batch_task, rate_limit_tracker,
                   cache, msgHist, voiceVars, lb, cacheHist, callVars, closeVars, failed_calls,
                   name_call, restVars, viewVars>>

(* _execute_batch_operations raises after done statements of the grouped batch
   have been executed (done = Len: conn.commit() raised): it logs and re-raises
   without a rollback, get_connection puts the connection back into the pool,
   and _process_batch_operations logs, sleeps and starts over with a new list.
   While another connection holds an open write transaction the first write
   statement raises "database is locked". *)
BatchFails(same, done) ==
    /\ batch_task = "running"
    /\ operations # <<>>
    /\ same => conn_tx # <<>>
    /\ done \in 0..Len(operations)
    /\ (conn_tx # <<>> /\ ~same) => done = 0
    /\ LET seen == IF same THEN conn_tx[1] ELSE [messages |-> messages, voice |-> voice]
       IN conn_tx' = IF done = 0 THEN conn_tx
                     ELSE <<ApplyAll(seen, SubSeq(GroupedOps(operations), 1, done))>>
    /\ failed_calls' = [k \in Keys |-> failed_calls[k]
            + Len(SelectSeq(operations, LAMBDA op : op.query = "increment" /\ op.key = k))]
    /\ operations' = <<>>
    /\ UNCHANGED <<now, dbVars, batch_queue, batch_task, rate_limit_tracker, cache,
                   msgHist, voiceVars, lb, cacheHist, callVars, closeVars, name_call,
                   view_setting, viewVars, restVars>>

(* cache_user through execute_query: cursor.execute and conn.commit() on the
   connection the pool hands out.  On the connection a failed batch left with
   an open transaction the commit also commits what that transaction holds; on
   another connection, while that transaction is open, the statement raises
   "database is locked" and execute_query logs and re-raises. *)
ExecuteQueryCommits(u, same) ==
    /\ same => conn_tx # <<>>
    /\ IF conn_tx # <<>> /\ ~same
       THEN UNCHANGED <<messages, voice, user_cache, conn_tx>>
       ELSE /\ user_cache' = user_cache \cup {u}
            /\ messages' = IF same THEN conn_tx[1].messages ELSE messages
            /\ voice' = IF same THEN conn_tx[1].voice ELSE voice
            /\ conn_tx' = <<>>
    /\ UNCHANGED <<now, last_reset, queueVars, rate_limit_tracker, cache, msgHist, voiceVars,
                   lb, cacheHist, callVars, closeVars, failed_calls, name_call, view_setting,
                   restVars, viewVars>>

NextBatchFail ==
    \/ WorkerTake
    \/ \E same \in BOOLEAN : BatchCommits(same)
    \/ \E same \in BOOLEAN, done \in 0..MaxQueue : BatchFails(same, done)
    \/ \E u \in Users, g \in Guilds, c \in Channels : IncrementMessageCount(u, g, c)

SpecBatchFail == Init /\ [][NextBatchFail]_vars

(* failing batches next to single statements that commit on pooled connections *)
NextAtomic ==
    \/ WorkerTake
    \/ \E same \in BOOLEAN : BatchCommits(same)
    \/ \E same \in BOOLEAN, done \in 0..MaxQueue : BatchFails(same, done)
    \/ \E u \in VoiceUsers, g \in Guilds, c \in Channels : IncrementMessageCount(u, g, c)
    \/ \E u \in VoiceUsers, same \in BOOLEAN : ExecuteQueryCommits(u, same)

SpecAtomic == Init /\ [][NextAtomic]_vars

NextMsg ==
    \/ Tick
    \/ WorkerTake
    \/ WorkerFlush
    \/ \E u \in Users, g \in Guilds, c \in Channels : IncrementMessageCount(u, g, c)

SpecMsg == Init /\ [][NextMsg]_vars

(* the worker task under the event loop: a queue.get() that can return does
   return (the producers only append), and the collecting loop ends after at
   most 100 operations, 5 seconds, or 1 second without a new operation, so a
   non-empty list is executed *)
NextWorker ==
    \/ WorkerTake
    \/ WorkerFlush
    \/ \E u \in Users, g \in Guilds, c \in Channels : IncrementMessageCount(u, g, c)

SpecWorkerFair ==
    Init /\ [][NextWorker]_vars /\ WF_vars(WorkerTake) /\ WF_vars(WorkerFlush)

(* the same with messages in two channels of the guild *)
NextChannels ==
    \/ Tick
    \/ WorkerTake
    \/ WorkerFlush
    \/ \E u \in Users, g \in Guilds, c \in MsgChannels : IncrementMessageCount(u, g, c)

SpecChannels == Init /\ [][NextChannels]_vars

(* the limiter called on its own for the messages of one member, whose
   accepted events are logged; the handlers run for the other member, with the
   writes they queue left in the queue *)
LimitUsers == {1}
HandlerUsers == {2}

NextLimit ==
    \/ Tick
    \/ \E u \in LimitUsers : CheckRateLimit(u, "message")
    \/ \E u \in HandlerUsers, g \in Guilds, c \in Channels : TrackMessage(u, g, c)
    \/ \E u \in HandlerUsers, g \in Guilds : VoiceJoin(u, g)
    \/ \E u \in HandlerUsers, g \in Guilds : VoiceLeaveBegin(u, g, "leave")
    \/ \E u \in HandlerUsers, g \in Guilds : VoiceLeaveSelect(u, g)

SpecLimit == Init /\ [][NextLimit]_vars

NextTrack ==
    \/ Tick
    \/ WorkerTake
    \/ WorkerFlush
    \/ \E u \in Users, g \in Guilds, c \in Channels : TrackMessage(u, g, c)

SpecTrack == Init /\ [][NextTrack]_vars

(* C1: once the batch queue is flushed, the stored count of every (user, guild)
   is exactly the number of increment_message_count calls made for it. *)
C1_IncrementNTimesYieldsN ==
    Flushed => \A k \in Keys : messages[k].count = inc_calls[k]

C1_Witness ==
    /\ Flushed
    /\ \E k \in Keys : inc_calls[k] = 3 /\ messages[k].count = 3

(* C2 as stated: once flushed, the stored count is the number of
   track_message events, bursts over the rate limit included. *)
C2_EveryEventCounted ==
    Flushed => \A k \in Keys : messages[k].count = msg_events[k]

UserEvents(u) == SumOver(msg_events, {u} \X Guilds)

(* C2 amended: once flushed, the stored count is the number of events the rate
   limiter accepted, which is every event of a user who sent no more than
   RATE_LIMIT_MESSAGES events. *)
C2_AcceptedEventsCounted ==
    Flushed =>
        \A k \in Keys :
            /\ messages[k].count = msg_events[k] - msg_rejected[k]
            /\ UserEvents(k[1]) <= RATE_LIMIT_MESSAGES => messages[k].count = msg_events[k]

C2_Witness ==
    /\ Flushed
    /\ \E k \in Keys :
          msg_events[k] = 3 /\ msg_rejected[k] = 1 /\ messages[k].count = 2

(* UserVoiceStats.total_time_including_current of a stored row at time t *)
TotalTimeIncludingCurrent(row, t) ==
    IF row.join_time # NULL THEN row.total_time + (t - row.join_time) ELSE row.total_time

(* C3: the total time including the current session of a stored voice row never
   decreases while its session stays open, and does not change while its
   session stays closed. *)
C3_VoiceTotalMonotone ==
    [][\A k \in Keys :
          (voice[k] # NoVoice /\ voice'[k] # NoVoice) =>
             /\ (voice[k].join_time # NULL /\ voice'[k].join_time # NULL) =>
                    TotalTimeIncludingCurrent(voice'[k], now')
                        >= TotalTimeIncludingCurrent(voice[k], now)
             /\ (voice[k].join_time = NULL /\ voice'[k].join_time = NULL) =>
                    TotalTimeIncludingCurrent(voice'[k], now')
                        = TotalTimeIncludingCurrent(voice[k], now)]_vars

NonIncreasing(rows) == \A i \in 1..(Len(rows) - 1) : rows[i].value >= rows[i + 1].value

(* C4: a message leaderboard query for limit K returns at most K rows, at most
   10 through the service, in non-increasing order of the count. *)
C4_MessageLeaderboardTopK ==
    /\ lb.api = "db" => Len(lb.rows) <= lb.limit /\ NonIncreasing(lb.rows)
    /\ lb.api = "service" =>
          /\ Len(lb.rows) <= lb.limit
          /\ Len(lb.rows) <= TopLimit
          /\ NonIncreasing(lb.rows)

C4_Witness ==
    /\ lb.api = "service"
    /\ lb.limit = TopLimit + 1
    /\ Len(lb.rows) = TopLimit
    /\ Cardinality(RowKeys(messages, NoRow)) > TopLimit
    /\ lb.rows[1].value > lb.rows[TopLimit].value

(* C5 as stated: a get of a key that was set, with no delete or clear of the
   key since, returns the value set when the ttl has not elapsed, and returns
   not-found and leaves no entry when the ttl has elapsed. *)
C5_SetThenGet ==
    (cache_op.op = "get" /\ set_log # NoSet /\ since_set \notin {"deleted", "cleared"}) =>
       /\ now < set_log.at + set_log.ttl =>
             cache_op.found /\ cache_op.value = set_log.value
       /\ now > set_log.at + set_log.ttl =>
             ~cache_op.found /\ ~CacheHas(cache, watched)

(* C5 amended: the same, for a key that was neither deleted, cleared, refreshed
   nor evicted since it was set. *)
C5_SetThenGetUndisturbed ==
    (cache_op.op = "get" /\ set_log # NoSet /\ since_set = "none") =>
       /\ now < set_log.at + set_log.ttl =>
             cache_op.found /\ cache_op.value = set_log.value
       /\ now > set_log.at + set_log.ttl =>
             ~cache_op.found /\ ~CacheHas(cache, watched)

C5_Witness ==
    /\ cache_op.op = "get"
    /\ since_set = "none"
    /\ set_log # NoSet
    /\ set_log.ttl > 0
    /\ now > set_log.at + set_log.ttl
    /\ ~cache_op.found

(* C10: the cache never holds more than max_size entries. *)
C10_CacheSizeBounded == Len(cache) <= max_size

C10_Witness ==
    /\ Len(cache) = max_size
    /\ since_set = "evicted"
    /\ \A i \in 1..Len(cache) : ~IsExpired(cache[i], now)

(* the ranking value C9 names, written out for a stored row *)
C9_RowValue(k) ==
    IF voice[k].join_time # NULL
    THEN voice[k].total_time + now - voice[k].join_time
    ELSE voice[k].total_time

C9_UserValue(u) ==
    LET v(g) == IF <<u, g>> \in RowKeys(voice, NoVoice) THEN C9_RowValue(<<u, g>>) ELSE 0
    IN v(1) + v(2)

(* C9: get_voice_leaderboard ranks every row by total_time + (now - join_time)
   when join_time is set and by total_time otherwise (summed per user in the
   query over all guilds), in non-increasing order, and returns at most limit
   rows, none of them ranked below a row it leaves out. *)
C9_VoiceLeaderboardRanking ==
    lb.api = "voice" =>
       /\ Len(lb.rows) <= lb.limit
       /\ NonIncreasing(lb.rows)
       /\ \A i \in 1..Len(lb.rows) :
             IF lb.guild_id # 0
             THEN /\ <<lb.rows[i].user_id, lb.guild_id>> \in RowKeys(voice, NoVoice)
                  /\ lb.rows[i].value = C9_RowValue(<<lb.rows[i].user_id, lb.guild_id>>)
             ELSE lb.rows[i].value = C9_UserValue(lb.rows[i].user_id)
       /\ lb.guild_id # 0 =>
             \A k \in RowKeys(voice, NoVoice) :
                (k[2] = lb.guild_id /\ \A i \in 1..Len(lb.rows) : lb.rows[i].user_id # k[1]) =>
                   \A i \in 1..Len(lb.rows) : lb.rows[i].value >= C9_RowValue(k)

(* a row with an open session is ranked above a row with a larger total_time *)
C9_Witness ==
    /\ lb.api = "voice"
    /\ lb.guild_id = 1
    /\ Len(lb.rows) = 2
    /\ voice[<<lb.rows[1].user_id, 1>>].join_time # NULL
    /\ voice[<<lb.rows[1].user_id, 1>>].total_time
          < voice[<<lb.rows[2].user_id, 1>>].total_time
    /\ lb.rows[1].value > lb.rows[2].value
    /\ Cardinality({k \in RowKeys(voice, NoVoice) : k[2] = 1}) = 3

(* C6: no leaderboard call returns, after a reset deleted the counters, entries
   it computed from the counters of before that reset. *)
C6_ResetAtomicForCallers ==
    \A c \in Callers :
        lb_call[c].pc = "done" => ~(lb_call[c].stale /\ lb_call[c].result # <<>>)

ResetInProgress ==
    \E c \in Callers :
        lb_call[c].pc \in {"delete_messages", "delete_voice", "delete_user_cache", "record_reset"}

(* C7: once a reset has completed and the batch queue is flushed, the stored
   count of every (user, guild) is the number of increments made since that
   reset deleted the counters: no increment queued before it reappears. *)
C7_ResetWipesCounters ==
    (Flushed /\ last_reset # NULL /\ ~ResetInProgress) =>
        \A k \in Keys : messages[k].count = inc_calls[k] - calls_at_reset[k]

(* C8: once close() has returned, every increment queued before close() was
   called is in the messages table. *)
C8_CloseDrainsQueue ==
    close_pc = "closed" => \A k \in Keys : messages[k].count >= calls_at_close[k]

UsePos(key) == CHOOSE i \in 1..Len(use_order) : use_order[i] = key

(* C11: every entry a set evicts was used (set, found by get, or refreshed)
   less recently than every entry the set leaves in the cache. *)
C11_EvictsLeastRecentlyUsed ==
    \A i \in 1..Len(evict_log) : \A j \in 1..Len(cache) :
        UsePos(evict_log[i].key) < UsePos(cache[j].key)

(* an unexpired entry is evicted while an entry created before it, and used
   after it, stays *)
C11_Witness ==
    /\ Len(evict_log) = 1
    /\ ~IsExpired(evict_log[1], now)
    /\ \E j \in 1..Len(cache) : cache[j].created_at < evict_log[1].created_at

(* the batch being executed holds an UPDATE ... SET total_time of the row k *)
LeaveApplied(k) ==
    /\ operations' = <<>>
    /\ \E i \in 1..Len(operations) : operations[i].query = "leave" /\ operations[i].key = k

(* C12: the total_time of a stored voice row changes only in a step that
   applies a leave of that row; applying a join to an existing row and reading
   the leaderboard leave it unchanged. *)
C12_TotalTimeChangesOnLeaveOnly ==
    [][\A k \in Keys :
          (voice[k] # NoVoice /\ voice'[k] # NoVoice
              /\ voice'[k].total_time # voice[k].total_time) => LeaveApplied(k)]_vars

(* a join was applied to a row that had accumulated time, after a read *)
C12_Witness ==
    /\ lb.api = "voice"
    /\ \E k \in Keys :
          voice[k] # NoVoice /\ voice[k].total_time > 0 /\ voice[k].join_time # NULL

(* C13: when the only voice events of a key are a join and a later leave, then
   once the writes are flushed the row has join_time cleared and total_time
   equal to the length of the session. *)
C13_JoinThenLeaveClosesSession ==
    \A k \in Keys :
        (/\ Flushed /\ voice_pc[k] = "idle"
         /\ ~first_session[k].more /\ first_session[k].leave_at # NULL) =>
            voice[k] = [total_time |-> first_session[k].leave_at - first_session[k].join_at,
                        join_time |-> NULL]

(* the counter of a user for one channel of a guild, as C14 reads the table:
   the count of the user's row when the row is of that channel *)
ChannelCount(k, c) == IF messages[k].channel_id = c THEN messages[k].count ELSE 0

(* C14 as stated: once flushed, the counter of every (user, guild, channel) is
   the number of increments made for that channel: an increment in one channel
   leaves the counters of the other channels unchanged. *)
C14_CounterPerChannel ==
    Flushed => \A k \in Keys : \A c \in MsgChannels : ChannelCount(k, c) = chan_calls[k][c]

(* C14 amended: there is one counter per (user, guild); once flushed it is the
   number of increments made in all channels of the guild together, and the
   row's channel_id is a channel an increment was made in. *)
C14_CounterPerUserAndGuild ==
    Flushed =>
        \A k \in Keys :
            /\ messages[k].count = SumOver(chan_calls[k], MsgChannels)
            /\ messages[k] # NoRow => chan_calls[k][messages[k].channel_id] > 0

C14_Witness ==
    /\ Flushed
    /\ \E k \in Keys :
          /\ chan_calls[k][1] = 1 /\ chan_calls[k][2] = 1
          /\ messages[k] = [count |-> 2, channel_id |-> 2]

(* the step is reset_leaderboard_data's DELETE FROM messages *)
ResetDeletes ==
    \E c \in Callers :
        lb_call[c].pc = "delete_messages" /\ lb_call'[c].pc = "delete_voice"

(* the batch being executed holds an increment of the row k *)
IncrementApplied(k) ==
    /\ operations' = <<>>
    /\ \E i \in 1..Len(operations) :
          operations[i].query = "increment" /\ operations[i].key = k

(* C15: in every step that is not the reset's DELETE, a stored message row
   stays and its count does not decrease, and a row appears only by an applied
   increment of its key. *)
C15_CountersOnlyGrowBetweenResets ==
    [][~ResetDeletes =>
          \A k \in Keys :
              /\ messages[k] # NoRow =>
                    messages'[k] # NoRow /\ messages'[k].count >= messages[k].count
              /\ (messages[k] = NoRow /\ messages'[k] # NoRow) =>
                    IncrementApplied(k) /\ messages'[k].count >= 1]_vars

(* after a reset, a voice join and a leaderboard read that returned rows, a
   counter has been created and raised *)
C15_Witness ==
    /\ last_reset # NULL
    /\ lb_call[CountersCaller].result # <<>>
    /\ \E k \in Keys : voice[k] # NoVoice
    /\ \E k \in Keys : messages[k].count = 2 /\ inc_calls[k] = 2

(* C16: a batch whose execution fails is dropped and the worker keeps running:
   once the queue is flushed and no batch is in progress, the stored count of
   every (user, guild) is the number of its increments that were not part of a
   failed batch, so no operation of a failed batch is ever applied and every
   other queued operation is. *)
C16_FailedBatchDropped ==
    /\ batch_task = "running"
    /\ Flushed =>
         \A k \in Keys :
            (IF messages[k] = NoRow THEN 0 ELSE messages[k].count)
                = inc_calls[k] - failed_calls[k]

(* C17: a get_message_leaderboard or get_voice_leaderboard call during which a
   database call raised (in the reset check, in the reset or in the ranking
   query) does not raise, and what it returns is the empty list. *)
C17_DatabaseErrorReturnsEmpty ==
    \A c \in Callers :
        lb_call[c].error # "none" =>
            /\ lb_call[c].pc # "raised"
            /\ lb_call[c].pc = "done" => lb_call[c].result = <<>>

(* C18: when the live lookup of a _get_username call fails (the user is not
   found, or the fetch raises) and the user cache holds a usable name for the
   user, the call returns the cached name; "Unknown User" is returned only
   when the user cache has no usable name. *)
C18_CachedNameWhenLookupFails ==
    LET c == name_call
        lookup_failed == c.user = "" /\ (c.fetched = "error"
                                          \/ (c.fetched = "not_found" /\ c.member = ""))
    IN c.user_id # 0 =>
          /\ (c.bot /\ lookup_failed /\ CachedName(c.cached, c.user_id) # "")
                 => c.result = CachedName(c.cached, c.user_id)
          /\ c.result = "Unknown User" => CachedName(c.cached, c.user_id) = ""

(* the id of the message sent last under the setting key, 0 when there is none *)
LastSent(key) ==
    LET ids == {i \in 1..Len(sent_log) : sent_log[i] = key}
    IN IF ids = {} THEN 0 ELSE CHOOSE i \in ids : \A j \in ids : j <= i

(* the set_setting of the id is queued, or the table holds it or a later one *)
Recorded(key, id) ==
    \/ \E i \in 1..Len(batch_queue \o operations) :
          (batch_queue \o operations)[i] = SetSettingOp(key, id)
    \/ view_setting[key] # "" /\ ParseInt(view_setting[key]) >= id

(* C19: a cycle of update_leaderboard_message that went through has deleted
   the message named by the setting it read if there was one, has sent a new
   message under its setting key and recorded its id; with the batch queue
   flushed, the id stored under every key is that of the message sent last
   under the key. *)
C19_StoredViewIsLatest ==
    /\ \A c \in Callers :
          cycle[c].pc = "done" =>
             /\ cycle[c].created \in 1..Len(sent_log)
             /\ sent_log[cycle[c].created] = cycle[c].key
             /\ Recorded(cycle[c].key, cycle[c].created)
             /\ (cycle[c].message_id # "" /\ cycle[c].old \notin {"forbidden", "error"})
                   => ParseInt(cycle[c].message_id) \notin views
    /\ Flushed =>
          \A key \in SettingKeys :
             view_setting[key] = IF LastSent(key) = 0 THEN "" ELSE ToString(LastSent(key))

C19_Witness ==
    /\ Flushed
    /\ \E c \in Callers :
          /\ cycle[c].pc = "done"
          /\ cycle[c].old = "deleted"
          /\ view_setting[cycle[c].key] = ToString(cycle[c].created)
          /\ LastSent(cycle[c].key) = cycle[c].created

(* C20: once fetching or deleting the old message has failed (not found,
   forbidden or another error), the call neither tries the old message again
   nor ends there: it is at the send of the new message or past it, and when
   the send went through the new message exists and its id is recorded. *)
C20_OldViewFailureDoesNotAbort ==
    \A c \in Callers :
       cycle[c].old \in {"not_found", "forbidden", "error"} =>
          /\ cycle[c].pc \in {"send", "done", "failed"}
          /\ cycle[c].pc = "done" =>
                /\ cycle[c].created \in 1..Len(sent_log)
                /\ sent_log[cycle[c].created] = cycle[c].key
                /\ Recorded(cycle[c].key, cycle[c].created)

C20_Witness ==
    \E c \in Callers :
       /\ cycle[c].old \in {"forbidden", "error"}
       /\ cycle[c].pc = "done"
       /\ cycle[c].created \in views
       /\ ParseInt(cycle[c].message_id) \in views

(* C21: the reset check of a leaderboard request starts a reset exactly when no
   last-reset timestamp is recorded or at least the refresh interval has
   elapsed since the recorded one; the recorded timestamp is never in the
   future, so a request checked right after a completed reset does not start
   another one. *)
C21_ResetOnlyWhenDue ==
    [][\A c \in Callers :
          (lb_call[c].pc = "check" /\ lb_call'[c].pc # "check") =>
             /\ (lb_call'[c].pc = "delete_messages")
                   <=> (last_reset = NULL \/ now >= last_reset + RefreshInterval)
             /\ last_reset # NULL => last_reset <= now]_vars

C21_Witness ==
    \E c \in Callers :
       /\ lb_call[c].pc = "done"
       /\ lb_call[c].current_time = NULL
       /\ last_reset # NULL
       /\ now - last_reset < RefreshInterval

(* C22: at most pool_size connections are checked out at a time, no connection
   is held by two callers or held while it is in the pool, and a caller that
   asked while the pool was empty holds nothing. *)
C22_PoolBounded ==
    LET holders == {c \in PoolCallers : pool_call[c].pc = "holding"}
    IN /\ Cardinality(holders) <= pool_size
       /\ \A c \in holders, d \in holders : c # d => pool_call[c].conn # pool_call[d].conn
       /\ \A c \in holders, i \in 1..Len(pool) : pool[i] # pool_call[c].conn
       /\ \A c \in PoolCallers : pool_call[c].pc # "holding" => pool_call[c].conn = 0

C22_Witness ==
    /\ pool = <<>>
    /\ Cardinality({c \in PoolCallers : pool_call[c].pc = "holding"}) = pool_size
    /\ \E c \in PoolCallers : pool_call[c].pc = "waiting"

(* C23: a track_message or handle_voice_state_update call in which the
   database write, the user-cache write or the cache invalidation raised has
   logged the failure and returned, never raised; when the write itself
   failed, nothing of the event was queued. *)
C23_HandlersNeverRaise ==
    event_log.handler # "none" =>
       /\ event_log.outcome = "logged"
       /\ event_log.failed_at = "write" => event_log.queued = 0

C23_Witness ==
    /\ event_log.handler = "handle_voice_state_update"
    /\ event_log.failed_at = "invalidate"
    /\ event_log.queued = 2
    /\ msg_events[<<1, 1>>] > inc_calls[<<1, 1>>]

(* C24: a get_message_leaderboard call never returns a cached result that was
   computed before a message that track_message accepted since. *)
C24_TrackInvalidatesLeaderboard ==
    read_log.hit => read_log.events = read_log.entry_events

(* C25: once the batch queue is flushed after a switch of a member whose row
   had an open session, the row's total_time includes the closed session and
   its session is open again, from the time of the switch or a later join. *)
C25_SwitchReopensSession ==
    \A k \in Keys :
       (Flushed /\ voice_pc[k] = "idle" /\ switch_log[k] # NoSwitch) =>
          /\ voice[k] # NoVoice
          /\ voice[k].total_time = switch_log[k].total
          /\ voice[k].join_time # NULL
          /\ voice[k].join_time >= switch_log[k].at

(* C26: when no fetch or delete of an old view has failed and no cycle is
   under way, at most one view sent under a setting key still exists in the
   channel. *)
C26_AtMostOneView ==
    (~old_failed /\ \A c \in Callers : cycle[c].pc \in {"idle", "done", "failed"}) =>
       \A key \in SettingKeys :
          Cardinality({id \in views : sent_log[id] = key}) <= 1

(* C27: with the worker running and scheduled fairly and no database failure,
   the n-th increment queued for a row is eventually committed: the row's
   count reaches n. *)
C27_QueuedIsEventuallyCommitted ==
    \A k \in Keys, n \in 1..MaxCalls :
       (inc_calls[k] >= n) ~> (messages[k] # NoRow /\ messages[k].count >= n)

C27_Witness ==
    \E k \in Keys :
       /\ Flushed
       /\ inc_calls[k] = MaxCalls
       /\ messages[k] # NoRow
       /\ messages[k].count = MaxCalls

(* the increments of the row k waiting in the queue or in the worker's list *)
PendingIncrements(k) ==
    Len(SelectSeq(operations \o batch_queue,
                  LAMBDA op : op.query = "increment" /\ op.key = k))

(* C28: the worker's list never holds more than 100 operations; the tables
   change only when a non-empty list is executed, which empties the list and
   leaves the queue alone; and every queued increment is either still waiting
   in one place or counted once in its row. *)
C28_BatchSizeAndExactlyOnce ==
    [][/\ Len(operations') <= BatchLimit
       /\ (messages' # messages \/ view_setting' # view_setting) =>
              /\ Len(operations) \in 1..BatchLimit
              /\ operations' = <<>>
              /\ batch_queue' = batch_queue
       /\ \A k \in Keys :
              inc_calls'[k] = PendingIncrements(k)'
                  + (IF messages'[k] = NoRow THEN 0 ELSE messages'[k].count)]_vars

C28_Witness ==
    /\ Len(operations) = BatchLimit
    /\ batch_queue # <<>>
    /\ \E k \in Keys : messages[k] # NoRow /\ messages[k].count = inc_calls[k]

(* C29: no write of a batch whose execution failed is ever committed: the
   stored count of a row never exceeds the number of its increments that were
   not part of a failed batch. *)
C29_FailedBatchNeverCommitted ==
    \A k \in Keys :
       (IF messages[k] = NoRow THEN 0 ELSE messages[k].count)
           <= inc_calls[k] - failed_calls[k]

(* the place in ops of the first operation with the query of ops[i] *)
FirstOfGroup(ops, i) ==
    CHOOSE j \in 1..i :
       /\ ops[j].query = ops[i].query
       /\ \A h \in 1..(j - 1) : ops[h].query # ops[i].query

(* ops[j] comes before ops[i]: its group started earlier, or it is in the same
   group and was queued earlier *)
Before(ops, j, i) ==
    \/ FirstOfGroup(ops, j) < FirstOfGroup(ops, i)
    \/ FirstOfGroup(ops, j) = FirstOfGroup(ops, i) /\ j < i

(* the operations of a batch in that order *)
InGroupOrder(ops) ==
    [r \in 1..Len(ops) |->
        ops[CHOOSE i \in 1..Len(ops) :
               Cardinality({j \in 1..Len(ops) : Before(ops, j, i)}) = r - 1]]

(* C30: the worker's list grows by the head of the queue only, so batches hold
   the operations in queue order and one batch is executed before the next is
   formed; executing a batch leaves the tables as if its operations had been
   applied one by one, group after group in the order of each group's first
   operation, and in queue order inside a group. *)
C30_ExecutionOrder ==
    [][operations' # operations =>
          \/ /\ batch_queue # <<>>
             /\ operations' = Append(operations, Head(batch_queue))
             /\ batch_queue' = Tail(batch_queue)
          \/ /\ operations' = <<>>
             /\ batch_queue' = batch_queue
             /\ LET db == ApplyAll([messages |-> messages, voice |-> voice],
                                  InGroupOrder(operations))
                IN messages' = db.messages /\ voice' = db.voice]_vars

(* a switch was executed in a batch whose join group had started before its
   leave: the leave was applied last *)
C30_Witness ==
    /\ Flushed
    /\ \E k \in Keys :
          /\ voice_pc[k] = "idle"
          /\ switch_log[k] # NoSwitch
          /\ voice[k].total_time = switch_log[k].total
          /\ voice[k].join_time = NULL

(* the events of the log accepted in the RATE_LIMIT_WINDOW seconds that end at t *)
AcceptedInWindow(log, t) ==
    Cardinality({i \in 1..Len(log) : log[i] > t - RATE_LIMIT_WINDOW /\ log[i] <= t})

(* the part of the quota of a tracker list in use at time t *)
QuotaUsed(times, t) == Len(SelectSeq(times, LAMBDA x : x > t - RATE_LIMIT_WINDOW))

(* the step leaves what a handler writes alone *)
NothingWritten ==
    /\ batch_queue' = batch_queue
    /\ cache' = cache
    /\ user_cache' = user_cache
    /\ inc_calls' = inc_calls
    /\ voice_pc' = voice_pc

(* C31: for every tracker key, at most RATE_LIMIT_MESSAGES events are accepted
   in the RATE_LIMIT_WINDOW seconds ending at any time; a message or voice
   event the limiter refuses uses no quota, queues no write, deletes no cache
   key and starts no handler step. *)
C31_RateLimitWindow ==
    [][/\ \A u \in Users, kind \in {"message", "voice"}, t \in 1..MaxTime :
              AcceptedInWindow(accept_log'[u, kind], t) <= RATE_LIMIT_MESSAGES
       /\ \A u \in Users, g \in Guilds :
              /\ msg_rejected'[<<u, g>>] # msg_rejected[<<u, g>>] =>
                    /\ NothingWritten
                    /\ QuotaUsed(rate_limit_tracker'[u, "message"], now)
                          = QuotaUsed(rate_limit_tracker[u, "message"], now)
              /\ (/\ in_voice'[<<u, g>>] # in_voice[<<u, g>>]
                     \/ first_session'[<<u, g>>] # first_session[<<u, g>>]
                  /\ QuotaUsed(rate_limit_tracker[u, "voice"], now) >= RATE_LIMIT_MESSAGES) =>
                    /\ NothingWritten
                    /\ QuotaUsed(rate_limit_tracker'[u, "voice"], now)
                          = QuotaUsed(rate_limit_tracker[u, "voice"], now)]_vars

C31_Witness ==
    /\ \E u \in LimitUsers :
          /\ Len(accept_log[u, "message"]) > RATE_LIMIT_MESSAGES
          /\ AcceptedInWindow(accept_log[u, "message"], now) = RATE_LIMIT_MESSAGES
    /\ \E k \in Keys : msg_rejected[k] > 0 /\ inc_calls[k] = RATE_LIMIT_MESSAGES


(***************************************************************************)
(* utils/decorators.py: retry.  The wrapper of one call: the loop          *)
(* `for attempt in range(max_attempts)`, one invocation of the wrapped     *)
(* function per iteration.  An invocation ends in "ok" (it returns),       *)
(* "listed" (it raises an exception caught by `except exceptions`) or      *)
(* "unlisted" (it raises any other exception).  log is the history of the  *)
(* invocations; a result names the invocation it comes from (0: none).     *)
(***************************************************************************)
Outcomes == {"ok", "listed", "unlisted"}
Delays == {1, 2, 3}
Backoffs == {1, 2}

RetryLastMutant(attempt, m) == attempt = m
(* `if attempt == max_attempts - 1` *)
RetryLast(attempt, m) == attempt = m - 1

(* the wrapper is entered: `current_delay = delay`; an empty range ends the loop at once
   and the wrapper returns None *)
RetryBegin(m, delay, backoff) ==
    /\ retry_call.pc # "running"
    /\ retry_call' = [pc |-> IF m = 0 THEN "done" ELSE "running",
                      max_attempts |-> m, backoff |-> backoff, attempt |-> 0,
                      current_delay |-> delay, log |-> <<>>, slept |-> 0,
                      result |-> IF m = 0 THEN [kind |-> "return", of |-> 0] ELSE NULL]
    /\ UNCHANGED <<botVars, health, limiter, command>>

(* one iteration of the loop: the invocation, and on a listed exception either the
   re-raise or the sleep and the longer delay *)
RetryInvoke(o) ==
    /\ retry_call.pc = "running"
    /\ LET r == retry_call
           n == Len(r.log) + 1
           log == Append(r.log, o)
       IN  retry_call' =
             IF o = "ok"
             THEN [r EXCEPT !.pc = "done", !.log = log,
                            !.result = [kind |-> "return", of |-> n]]
             ELSE IF o = "unlisted" \/ RetryLast(r.attempt, r.max_attempts)
             THEN [r EXCEPT !.pc = "done", !.log = log,
                            !.result = [kind |-> "raise", of |-> n]]
             ELSE IF r.attempt + 1 < r.max_attempts
             THEN [r EXCEPT !.log = log, !.attempt = @ + 1,
                            !.slept = @ + r.current_delay,
                            !.current_delay = @ * r.backoff]
             ELSE [r EXCEPT !.pc = "done", !.log = log,
                            !.slept = @ + r.current_delay,
                            !.current_delay = @ * r.backoff,
                            !.result = [kind |-> "return", of |-> 0]]
    /\ UNCHANGED <<botVars, health, limiter, command>>


MaxAttempts == 3

NextRetry ==
    \/ \E m \in 0..MaxAttempts, d \in Delays, b \in Backoffs : RetryBegin(m, d, b)
    \/ \E o \in Outcomes : RetryInvoke(o)

SpecRetry == Init /\ [][NextRetry]_vars
(* the wrapped function and the sleep return: a running wrapper takes its next iteration *)
SpecRetryFair == SpecRetry /\ WF_vars(\E o \in Outcomes : RetryInvoke(o))

(* the invocations of the call that failed with a listed exception *)
ListedFailures(log) == Len(SelectSeq(log, LAMBDA o : o = "listed"))

(* what the finished call must have done, from the history of its invocations *)
RetryOutcomeOk(r) ==
    LET n == Len(r.log)
    IN  /\ n <= r.max_attempts
        /\ r.pc = "done" /\ n > 0 =>
              /\ \A i \in 1..(n - 1) : r.log[i] = "listed"
              /\ r.log[n] = "ok" => r.result = [kind |-> "return", of |-> n]
              /\ r.log[n] = "unlisted" => r.result = [kind |-> "raise", of |-> n]
              /\ r.log[n] = "listed" =>
                    /\ n = r.max_attempts
                    /\ r.result = [kind |-> "raise", of |-> n]
        /\ r.pc = "running" =>
              /\ n < r.max_attempts
              /\ \A i \in 1..n : r.log[i] = "listed"

(* C32: a function wrapped by retry(max_attempts, ...) is invoked at most max_attempts
   times; the wrapper returns the result of the first successful invocation, re-raises
   the exception of the last invocation after max_attempts listed failures, raises an
   unlisted exception at once, and every call of the wrapper ends *)
C32_RetryBounded ==
    /\ [](RetryOutcomeOk(retry_call))
    /\ (retry_call.pc = "running") ~> (retry_call.pc = "done")

C32_Witness ==
    /\ retry_call.pc = "done"
    /\ retry_call.max_attempts = MaxAttempts
    /\ ListedFailures(retry_call.log) = MaxAttempts
    /\ retry_call.result = [kind |-> "raise", of |-> MaxAttempts]
    /\ retry_call.slept > 0


(***************************************************************************)
(* ConnectionPool.get_connection when the calling task is cancelled.       *)
(* Inside the block the CancelledError passes through `finally`, which     *)
(* puts the connection back.  While the call awaits run_in_executor the    *)
(* blocking self._pool.get already runs in a worker thread and cannot be   *)
(* cancelled: the task ends with conn still None, and the thread's get     *)
(* goes on (pc "abandoned") until it takes a connection, whose result      *)
(* nobody receives, or times out.                                          *)
(***************************************************************************)
PoolCancel(c) ==
    /\ pool_call[c].pc \in {"waiting", "holding"}
    /\ IF pool_call[c].pc = "holding"
       THEN /\ pool' = IF Len(pool) < pool_size THEN Append(pool, pool_call[c].conn) ELSE pool
            /\ pool_call' = [pool_call EXCEPT ![c] = NoPoolCall]
       ELSE /\ pool_call' = [pool_call EXCEPT ![c].pc = "abandoned"]
            /\ UNCHANGED pool
    /\ UNCHANGED PoolOthers

(* the abandoned get returns in its thread: the connection leaves the queue and the
   future that would carry it is already cancelled *)
PoolGetAbandoned(c) ==
    /\ pool_call[c].pc = "abandoned"
    /\ pool # <<>>
    /\ pool' = PoolAfterGet(pool)
    /\ pool_call' = [pool_call EXCEPT ![c] = NoPoolCall]
    /\ UNCHANGED PoolOthers

(* the abandoned get times out on an empty queue *)
PoolTimeoutAbandoned(c) ==
    /\ pool_call[c].pc = "abandoned"
    /\ pool = <<>>
    /\ pool_call' = [pool_call EXCEPT ![c] = NoPoolCall]
    /\ UNCHANGED <<PoolOthers, pool>>

NextPoolCancel ==
    \/ NextPool
    \/ \E c \in PoolCallers : PoolCancel(c)
    \/ \E c \in PoolCallers : PoolGetAbandoned(c)
    \/ \E c \in PoolCallers : PoolTimeoutAbandoned(c)

SpecPoolCancel == Init /\ [][NextPoolCancel]_vars

(* C33: once every caller of get_connection has finished, however its block ended,
   the pool holds pool_size connections again *)
C33_PoolRestored ==
    (\A c \in PoolCallers : pool_call[c].pc = "idle") => Len(pool) = pool_size


(* DatabaseManager.close while executing the remaining operations may raise *)
NextCloseFail ==
    \/ NextClose
    \/ CloseExecuteFails

SpecCloseFail == Init /\ [][NextCloseFail]_vars

(* C34: when close() has returned, every pooled connection is closed and the pool is
   marked uninitialized *)
C34_CloseAlwaysClosesPool ==
    close_pc = "closed" => pool = <<>> /\ ~initialized


(* a reset has completed (its timestamp is recorded) and the interval it opened has
   not elapsed *)
ResetDoneForInterval == last_reset # NULL /\ ~ShouldReset(last_reset, now)

(* the two refreshes running concurrently, messages being counted only once a reset
   has completed: every stored counter was applied after that reset *)
NextResetTwice ==
    \/ Tick
    \/ WorkerTake
    \/ WorkerFlush
    \/ \E u \in Users, g \in Guilds, ch \in Channels :
          ResetDoneForInterval /\ ResetIncrement(u, g, ch)
    \/ \E c \in Callers, kind \in {"message", "voice"}, g \in Guilds : LeaderboardCall(c, kind, g)
    \/ \E c \in Callers : CallCheck(c)
    \/ \E c \in Callers : ResetDeleteMessages(c)
    \/ \E c \in Callers : ResetDeleteVoice(c)
    \/ \E c \in Callers : ResetDeleteUserCache(c)
    \/ \E c \in Callers : ResetRecord(c)
    \/ \E c \in Callers, tie \in {"up", "down"} : CallQuery(c, tie)
    \/ \E c \in Callers : CallNames(c)

SpecResetTwice == Init /\ [][NextResetTwice]_vars

(* C35: with the message and the voice refresh running concurrently, the DELETE of a
   second reset never runs within the interval a completed reset opened, so it removes
   no counter applied since that reset *)
C35_OneResetPerInterval ==
    [][(ResetDeletes /\ ResetDoneForInterval) => \A k \in Keys : messages[k] = NoRow]_vars


(* the step is the SELECT of update_voice_leave for the key k and what follows it *)
LeaveSelected(k) == voice_pc[k] \in {"leave", "switch"} /\ voice_pc'[k] = "idle"

(* C36: update_voice_leave for a key with no voice row, or whose row has no join_time,
   queues no write (after a switch the queue gains only the join of the new channel)
   and leaves the voice table unchanged *)
C36_LeaveWithoutSessionIsNoOp ==
    [][\A k \in Keys :
          (LeaveSelected(k) /\ (voice[k] = NoVoice \/ voice[k].join_time = NULL)) =>
              /\ voice' = voice
              /\ messages' = messages
              /\ batch_queue' = batch_queue
                    \o (IF voice_pc[k] = "switch" THEN <<JoinOp(k[1], k[2], now)>> ELSE <<>>)]_vars

(* a second session was left while its join was still queued and the row, closed by the
   first leave, had no join_time: the queue holds that join and nothing else *)
C36_Witness ==
    \E k \in Keys :
        /\ ~in_voice[k] /\ voice_pc[k] = "idle"
        /\ voice[k] # NoVoice /\ voice[k].join_time = NULL
        /\ operations = <<>>
        /\ Len(batch_queue) = 1 /\ batch_queue[1].query = "join" /\ batch_queue[1].key = k


(***************************************************************************)
(* utils/monitoring.py: HealthChecker.  A check function ends in one of    *)
(* CheckBehaviours: it raises an Exception, returns True or False, returns *)
(* a dict with the status named or with no 'status' key, or returns any    *)
(* other value.  results maps a name to the status of its latest recorded  *)
(* result, "none" when the dict has no entry.                              *)
(***************************************************************************)
CheckBehaviours == {"raise", "true", "false", "healthy", "warning", "critical", "no_status", "other"}

(* the status run_check gives the result of a registered check *)
CheckStatusMutant(b) == IF b \in {"false", "critical"} THEN "critical"
                        ELSE IF b = "warning" THEN "warning" ELSE "healthy"
CheckStatus(b) ==
    IF b = "raise" THEN "critical"
    ELSE IF b = "true" THEN "healthy"
    ELSE IF b = "false" THEN "critical"
    ELSE IF b \in {"healthy", "warning", "critical"} THEN b
    ELSE "healthy"

RegisterCheck(name) ==
    /\ health' = [health EXCEPT !.checks = @ \cup {name}, !.overall = "none"]
    /\ UNCHANGED <<botVars, retry_call, limiter, command>>

(* run_check(name): an unknown name returns a critical result at once; otherwise the
   check runs and its result, or the critical result of the except branch, is recorded *)
RunCheck(name, b) ==
    /\ health' =
          IF name \notin health.checks
          THEN [health EXCEPT !.last = [name |-> name, registered |-> FALSE,
                                        behaviour |-> "none", outcome |-> "returned",
                                        status |-> "critical"],
                              !.overall = "none"]
          ELSE [health EXCEPT !.results[name] = CheckStatus(b),
                              !.last = [name |-> name, registered |-> TRUE,
                                        behaviour |-> b, outcome |-> "returned",
                                        status |-> CheckStatus(b)],
                              !.overall = "none"]
    /\ UNCHANGED <<botVars, retry_call, limiter, command>>

(* get_overall_status over self.results.values() *)
OverallStatus(results) ==
    LET statuses == {results[n] : n \in {m \in DOMAIN results : results[m] # "none"}}
    IN  IF statuses = {} THEN "unknown"
        ELSE IF "critical" \in statuses THEN "critical"
        ELSE IF "warning" \in statuses THEN "warning"
        ELSE "healthy"

GetOverallStatus ==
    /\ health' = [health EXCEPT !.overall = OverallStatus(health.results)]
    /\ UNCHANGED <<botVars, retry_call, limiter, command>>

NextHealth ==
    \/ \E name \in CheckNames : RegisterCheck(name)
    \/ \E name \in CheckNames, b \in CheckBehaviours : RunCheck(name, b)
    \/ GetOverallStatus

SpecHealth == Init /\ [][NextHealth]_vars

(* C37: run_check always returns; the result of a check that raised is recorded as
   critical; the result for an unregistered name is critical and is not recorded;
   get_overall_status is unknown with nothing recorded, else critical if a latest
   result is critical, else warning if one is warning, else healthy *)
C37_HealthStatus ==
    /\ health.last.name # "none" => health.last.outcome = "returned"
    /\ (health.last.registered /\ health.last.behaviour = "raise") =>
          /\ health.last.status = "critical"
          /\ health.results[health.last.name] = "critical"
    /\ (health.last.name # "none" /\ ~health.last.registered) =>
          /\ health.last.status = "critical"
          /\ health.results[health.last.name] = "none"
    /\ \A n \in CheckNames \ health.checks : health.results[n] = "none"
    /\ health.overall # "none" =>
          health.overall =
             IF \A n \in CheckNames : health.results[n] = "none" THEN "unknown"
             ELSE IF \E n \in CheckNames : health.results[n] = "critical" THEN "critical"
             ELSE IF \E n \in CheckNames : health.results[n] = "warning" THEN "warning"
             ELSE "healthy"

(* a registered check raised and was recorded as critical while the other name, run
   unregistered, has no recorded result; the overall status read then is critical *)
C37_Witness ==
    /\ health.overall = "critical"
    /\ \E n \in health.checks :
          /\ health.last = [name |-> n, registered |-> TRUE, behaviour |-> "raise",
                            outcome |-> "returned", status |-> "critical"]
          /\ health.results[n] = "critical"
    /\ \E n \in CheckNames \ health.checks : health.results[n] = "none"


(***************************************************************************)
(* utils/decorators.py: RateLimiter and rate_limit.  calls[key] is the     *)
(* deque of the limiter; executed[key] is the history of the times the     *)
(* wrapped function ran for the key; last is what the last call of the     *)
(* wrapper returned ("executed": the function's result, "None").           *)
(***************************************************************************)
max_calls == 2
window == 2

(* while calls and calls[0] <= now - self.window: calls.popleft() *)
RECURSIVE PopExpiredMutant(_, _)
PopExpiredMutant(calls, t) ==
    IF calls # <<>> /\ calls[1] <= t - window + 1 THEN PopExpiredMutant(Tail(calls), t) ELSE calls
RECURSIVE PopExpired(_, _)
PopExpired(calls, t) ==
    IF calls # <<>> /\ calls[1] <= t - window THEN PopExpired(Tail(calls), t) ELSE calls

(* RateLimiter.is_allowed, after the expired calls are removed *)
IsAllowed(calls, t) == Len(PopExpired(calls, t)) < max_calls

(* one call of the wrapper with the key: is_allowed(key), then the function or None *)
WrapperCall(key) ==
    /\ limiter' =
          IF IsAllowed(limiter.calls[key], now)
          THEN [limiter EXCEPT !.calls[key] = Append(PopExpired(@, now), now),
                               !.executed[key] = Append(@, now),
                               !.last = [key |-> key, result |-> "executed",
                                         turn |-> 1 - limiter.last.turn]]
          ELSE [limiter EXCEPT !.calls[key] = PopExpired(@, now),
                               !.last = [key |-> key, result |-> "None",
                                         turn |-> 1 - limiter.last.turn]]
    /\ UNCHANGED <<botVars, retry_call, health, command>>

NextDecorator ==
    \/ Tick
    \/ \E key \in LimiterKeys : WrapperCall(key)

SpecDecorator == Init /\ [][NextDecorator]_vars

(* the executions of the log within the window (t - window, t] *)
ExecutedInWindow(log, t) == Len(SelectSeq(log, LAMBDA x : x > t - window /\ x <= t))

(* the step is a call of the wrapper with the key *)
WrapperCalled(key) == limiter'.last # limiter.last /\ limiter'.last.key = key

(* C38: for every key the wrapped function is executed at most max_calls times in any
   window of `window` seconds; a call over the limit returns None, executes nothing and
   leaves the quota in use as it was; a call changes nothing for another key *)
C38_DecoratorWindow ==
    [][/\ \A key \in LimiterKeys, t \in 1..MaxTime :
             ExecutedInWindow(limiter'.executed[key], t) <= max_calls
       /\ \A key \in LimiterKeys :
             WrapperCalled(key) =>
                /\ \A other \in LimiterKeys \ {key} :
                      /\ limiter'.calls[other] = limiter.calls[other]
                      /\ limiter'.executed[other] = limiter.executed[other]
                /\ limiter'.last.result = "None" <=>
                      ExecutedInWindow(limiter.executed[key], now) = max_calls
                /\ limiter'.last.result = "None" =>
                      /\ limiter'.executed = limiter.executed
                      /\ ExecutedInWindow(limiter'.calls[key], now)
                            = ExecutedInWindow(limiter.calls[key], now)
                /\ limiter'.last.result = "executed" =>
                      limiter'.executed[key] = Append(limiter.executed[key], now)]_vars

(* key a was refused at its limit, then executed again once its window had moved on,
   while key b ran within its own quota *)
C38_Witness ==
    /\ Len(limiter.executed["a"]) > max_calls
    /\ ExecutedInWindow(limiter.executed["a"], now) = max_calls
    /\ limiter.last = [key |-> "a", result |-> "None", turn |-> limiter.last.turn]
    /\ Len(limiter.executed["b"]) = 1


(***************************************************************************)
(* cogs/leaderboard_cog.py: the commands 'leaderboard messages' and        *)
(* 'leaderboard voice'.  given says whether the user passed a limit; the   *)
(* command validates it, awaits create_leaderboard_embed, which calls      *)
(* get_message_leaderboard(guild_id) or get_voice_leaderboard(guild_id)    *)
(* with no limit, and sends the embed.                                     *)
(***************************************************************************)
CommandLimits == {-1, 0, 1, 2, 10, 11}

(* if limit and (limit < 1 or limit > 10) *)
LimitRejected(given, limit) == given /\ limit # 0 /\ (limit < 1 \/ limit > 10)

(* the command up to its await: the error message, or the embed is requested *)
CommandBegin(kind, given, limit) ==
    /\ command.pc = "idle"
    /\ kind = "voice" => ENABLE_VOICE_TRACKING
    /\ command' = IF LimitRejected(given, limit)
                  THEN [pc |-> "done", kind |-> kind, given |-> given, limit |-> limit,
                        reply |-> "error", lines |-> 0]
                  ELSE [pc |-> "embed", kind |-> kind, given |-> given, limit |-> limit,
                        reply |-> "none", lines |-> 0]
    /\ UNCHANGED <<botVars, retry_call, health, limiter>>

(* create_leaderboard_embed calls the service for the kind of the command *)
CommandCall(g) ==
    /\ command.pc = "embed"
    /\ lb_call[CountersCaller].pc = "idle"
    /\ LeaderboardCall(CountersCaller, command.kind, g)

(* for i, entry in enumerate(entries[:LEADERBOARD_SIZE], 1): one line per entry;
   await ctx.send(embed=embed) *)
CommandSend ==
    /\ command.pc = "embed"
    /\ lb_call[CountersCaller].pc = "done"
    /\ command' = [command EXCEPT !.pc = "done", !.reply = "embed",
                                  !.lines = Min(Len(lb_call[CountersCaller].result),
                                                LEADERBOARD_SIZE)]
    /\ UNCHANGED <<botVars, retry_call, health, limiter>>

NextCommand ==
    \/ WorkerTake
    \/ WorkerFlush
    \/ \E u \in Users, g \in Guilds, ch \in Channels : ResetIncrement(u, g, ch)
    \/ \E kind \in {"message", "voice"}, given \in BOOLEAN, limit \in CommandLimits :
          CommandBegin(kind, given, limit)
    \/ \E g \in Guilds : CommandCall(g)
    \/ CallCheck(CountersCaller)
    \/ ResetDeleteMessages(CountersCaller)
    \/ ResetDeleteVoice(CountersCaller)
    \/ ResetDeleteUserCache(CountersCaller)
    \/ ResetRecord(CountersCaller)
    \/ \E tie \in {"up", "down"} : CallQuery(CountersCaller, tie)
    \/ CallNames(CountersCaller)
    \/ CommandSend

SpecCommand == Init /\ [][NextCommand]_vars

(* C39: a command given a limit L in 1..10 displays at most L entries, and a command
   given a limit outside 1..10 is answered by the error message, with no leaderboard *)
C39_LimitRespected ==
    (command.pc = "done" /\ command.given) =>
        IF command.limit \in 1..10
        THEN command.reply = "embed" /\ command.lines <= command.limit
        ELSE command.reply = "error" /\ command.lines = 0

====
